---- MODULE Spec2Model ----
(***************************************************************************)
(* Dogecoin HTCL (Hash Time-Locked Contract): the script generator, the    *)
(* spending validator and the transaction builder of src/dogecoin.         *)
(*                                                                         *)
(* Python str values are sequences of one-character strings, so that       *)
(* len(), startswith(), slicing and concatenation are computed as the code *)
(* computes them.  Python ints are unbounded; the model draws them from    *)
(* small ranges.  A call is recorded in `last` with what it was given and  *)
(* what it returned or raised.                                             *)
(***************************************************************************)
EXTENDS Integers, Sequences, FiniteSets, TLC

VARIABLES script, builder, last, env, flow

vars == <<script, builder, last, env, flow>>

(***************************************************************************)
(* Bounds of the model.                                                    *)
(***************************************************************************)
MaxTimelock == 3
MaxBlock == 4
MaxAmount == 3
MaxFee == 2
MaxUtxos == 2
MaxUtxoAmount == 2
MaxHours == 2

(***************************************************************************)
(* String helpers.                                                         *)
(***************************************************************************)
Rep(c, n) == [i \in 1..n |-> c]

StartsWith(s, p) == Len(s) >= Len(p) /\ SubSeq(s, 1, Len(p)) = p

Truthy(s) == s # <<>>

DigitChar(d) == <<"0","1","2","3","4","5","6","7","8","9">>[d + 1]

RECURSIVE IntToStr(_)
IntToStr(n) ==
    IF n < 0 THEN <<"-">> \o IntToStr(0 - n)
    ELSE IF n < 10 THEN <<DigitChar(n)>>
    ELSE IntToStr(n \div 10) \o <<DigitChar(n % 10)>>

IsHexChar(c) ==
    c \in {"0","1","2","3","4","5","6","7","8","9",
           "a","b","c","d","e","f","A","B","C","D","E","F"}

HexVal(c) ==
    CASE c = "0" -> 0 [] c = "1" -> 1 [] c = "2" -> 2 [] c = "3" -> 3
      [] c = "4" -> 4 [] c = "5" -> 5 [] c = "6" -> 6 [] c = "7" -> 7
      [] c = "8" -> 8 [] c = "9" -> 9
      [] c \in {"a","A"} -> 10 [] c \in {"b","B"} -> 11
      [] c \in {"c","C"} -> 12 [] c \in {"d","D"} -> 13
      [] c \in {"e","E"} -> 14 [] c \in {"f","F"} -> 15

\* bytes.fromhex(s): ValueError unless s is an even number of hex digits
FromHex(s) ==
    IF Len(s) % 2 = 0 /\ \A i \in 1..Len(s) : IsHexChar(s[i])
    THEN [err |-> "none",
          bytes |-> [i \in 1..(Len(s) \div 2) |->
                        16 * HexVal(s[2 * i - 1]) + HexVal(s[2 * i])]]
    ELSE [err |-> "ValueError", bytes |-> <<>>]

(***************************************************************************)
(* String literals of the source.                                          *)
(***************************************************************************)
STR_OP == <<"O","P","_">>
STR_OP_PUSHDATA == <<"O","P","_","P","U","S","H","D","A","T","A","(">>
STR_0x == <<"0","x">>
N_OP_DUP == <<"O","P","_","D","U","P">>
N_OP_HASH160 == <<"O","P","_","H","A","S","H","1","6","0">>
N_OP_EQUALVERIFY == <<"O","P","_","E","Q","U","A","L","V","E","R","I","F","Y">>
N_OP_CHECKSIG == <<"O","P","_","C","H","E","C","K","S","I","G">>
N_OP_IF == <<"O","P","_","I","F">>
N_OP_ELSE == <<"O","P","_","E","L","S","E">>
N_OP_ENDIF == <<"O","P","_","E","N","D","I","F">>
N_OP_CHECKLOCKTIMEVERIFY == <<"O","P","_","C","H","E","C","K","L","O","C","K","T","I","M","E","V","E","R","I","F","Y">>
N_OP_DROP == <<"O","P","_","D","R","O","P">>

DUMMY_SIGNATURE == <<"d","u","m","m","y","_","s","i","g","n","a","t","u","r","e">>
DUMMY == <<"d","u","m","m","y">>
PREVIOUS_TXID == <<"p","r","e","v","i","o","u","s","_","t","x","i","d">>
STR_P2SH_PRE == <<"O","P","_","H","A","S","H","1","6","0"," ">>
STR_P2SH_POST == <<" ","O","P","_","E","Q","U","A","L">>
STR_P2PKH_PRE == <<"O","P","_","D","U","P"," ","O","P","_","H","A","S","H","1","6","0"," ">>
STR_P2PKH_POST == <<" ","O","P","_","E","Q","U","A","L","V","E","R","I","F","Y"," ","O","P","_","C","H","E","C","K","S","I","G">>

\* values the tests and examples pass in
ALICE_PUBKEY == <<"0","2">> \o Rep("a", 64)
BOB_PUBKEY == <<"0","2">> \o Rep("b", 64)
WRONG_PUBKEY == <<"w","r","o","n","g","_","p","u","b","k","e","y">>
VALID_SIGNATURE == <<"v","a","l","i","d","_","s","i","g","n","a","t","u","r","e">>
INVALID_HASH == <<"i","n","v","a","l","i","d","_","h","a","s","h">>
TEST_SECRET == <<"t","e","s","t","_","s","e","c","r","e","t","_","f","o","r","_","h","t","c","l","_","c","o","n","t","r","a","c","t">>
WRONG_SECRET == <<"w","r","o","n","g","_","s","e","c","r","e","t">>
INTEGRATION_SECRET == <<"i","n","t","e","g","r","a","t","i","o","n","_","t","e","s","t","_","s","e","c","r","e","t">>
SHORT_SECRET == <<"t","e","s","t","_","s","e","c","r","e","t">>
DOGE_ADDRESS == <<"D","8","g","P","6","w","F","1","J","P","5","X","d","Q","p","w","4","V","N","3","u","X","J","m","U","i","x","F","6","R","T","7","b","9">>
P2SH_ADDRESS == <<"3","P","y","t","c","L","t","X","s","P","Y","f","2","Y","B","S","b","f","v","F","v","4","p","c","7","R","m","r","E","o","y","z","y","s">>
\* a 32-byte secret in the text form the flows store
FLOW_SECRET == <<"0","x","2","f","a","7","9","d","8","3","b","1","5","1","0","4","0","7","e","e","3","5","b","b","0","2","e","f","f","9","8","4","0","3","f","5","9","7","8","4","3","1","0","2","b","2","8","6","5","d","7","0","3","c","9","2","5","5","8","e","b","1","b","d","1","1">>
TEST_TXID == <<"t","e","s","t","_","t","x","i","d">>

Secrets == {TEST_SECRET, WRONG_SECRET, INTEGRATION_SECRET, SHORT_SECRET}

(***************************************************************************)
(* hashlib.new('ripemd160', hashlib.sha256(secret.encode()).digest())      *)
(*     .hexdigest()                                                        *)
(* The digest is the library's; the table holds its values on Secrets.     *)
(***************************************************************************)
Hash160Hex(secret) ==
    CASE secret = TEST_SECRET ->
           <<"d","9","c","1","2","9","a","2","3","b","d","0","0","f","8","d","3","b","c","1","9","b","3","a","0","7","f","7","9","4","a","f","c","9","c","8","5","a","a","5">>
      [] secret = WRONG_SECRET ->
           <<"3","3","d","1","5","9","8","d","0","2","1","9","7","8","1","9","a","7","8","9","f","b","0","1","0","c","6","8","8","e","9","c","9","7","3","9","9","2","1","2">>
      [] secret = INTEGRATION_SECRET ->
           <<"1","8","4","0","a","4","4","e","8","6","0","7","4","a","9","6","a","8","0","e","4","2","3","3","2","8","9","5","f","5","c","6","8","9","4","8","5","5","9","9">>
      [] secret = SHORT_SECRET ->
           <<"3","6","c","e","e","7","7","c","b","9","7","9","0","0","0","e","2","a","6","b","5","a","d","c","d","6","8","9","7","1","4","a","9","3","d","9","d","4","c","0">>
      [] secret = FLOW_SECRET ->
           <<"9","3","9","9","1","5","7","e","0","f","0","9","a","a","5","b","7","b","2","2","f","3","a","c","5","5","d","4","e","4","3","b","e","3","c","5","b","d","e","6">>

generate_hashlock(secret) == Hash160Hex(secret)

(***************************************************************************)
(* class HTCLScript (dataclass) and the absent value.                      *)
(***************************************************************************)
None == [none |-> TRUE]

HTCLScript(alice_pubkey, bob_pubkey, timelock, hashlock, script_hex, p2sh_address) ==
    [alice_pubkey |-> alice_pubkey, bob_pubkey |-> bob_pubkey,
     timelock |-> timelock, hashlock |-> hashlock,
     script_hex |-> script_hex, p2sh_address |-> p2sh_address]

(***************************************************************************)
(* class HTCLScriptGenerator                                               *)
(***************************************************************************)
OP_DUP == 118
OP_HASH160 == 169
OP_EQUALVERIFY == 136
OP_CHECKSIG == 172
OP_IF == 99
OP_ELSE == 103
OP_ENDIF == 104
OP_CHECKLOCKTIMEVERIFY == 177
OP_DROP == 117

\* the class attributes getattr(HTCLScriptGenerator, name) finds
OpcodeNames ==
    {N_OP_DUP, N_OP_HASH160, N_OP_EQUALVERIFY, N_OP_CHECKSIG, N_OP_IF,
     N_OP_ELSE, N_OP_ENDIF, N_OP_CHECKLOCKTIMEVERIFY, N_OP_DROP}

GetAttr(name) ==
    CASE name = N_OP_DUP -> OP_DUP
      [] name = N_OP_HASH160 -> OP_HASH160
      [] name = N_OP_EQUALVERIFY -> OP_EQUALVERIFY
      [] name = N_OP_CHECKSIG -> OP_CHECKSIG
      [] name = N_OP_IF -> OP_IF
      [] name = N_OP_ELSE -> OP_ELSE
      [] name = N_OP_ENDIF -> OP_ENDIF
      [] name = N_OP_CHECKLOCKTIMEVERIFY -> OP_CHECKLOCKTIMEVERIFY
      [] name = N_OP_DROP -> OP_DROP

\* f"OP_PUSHDATA({x})"
PushData(x) == STR_OP_PUSHDATA \o x \o <<")">>

\* the loop of _script_parts_to_hex over the parts, left to right
RECURSIVE ScriptPartsLoop(_, _)
ScriptPartsLoop(parts, script_bytes) ==
    IF parts = <<>> THEN [err |-> "none", bytes |-> script_bytes]
    ELSE LET part == Head(parts) IN
         IF StartsWith(part, STR_OP)
         THEN \* getattr raises AttributeError for a name the class lacks
              IF part \in OpcodeNames
              THEN ScriptPartsLoop(Tail(parts), Append(script_bytes, GetAttr(part)))
              ELSE [err |-> "AttributeError", bytes |-> script_bytes]
         ELSE IF StartsWith(part, STR_OP_PUSHDATA)
         THEN LET data0 == SubSeq(part, 13, Len(part) - 1)
                  data == IF StartsWith(data0, STR_0x)
                          THEN SubSeq(data0, 3, Len(data0)) ELSE data0
                  data_bytes == FromHex(data)
              IN IF data_bytes.err # "none"
                 THEN [err |-> data_bytes.err, bytes |-> script_bytes]
                 ELSE ScriptPartsLoop(Tail(parts),
                          Append(script_bytes, Len(data_bytes.bytes)) \o data_bytes.bytes)
         ELSE ScriptPartsLoop(Tail(parts), script_bytes)

\* script_bytes.hex(): script_bytes is a list, and a list has no hex()
ListHex(script_bytes) == [err |-> "AttributeError", hex |-> <<>>]

script_parts_to_hex(script_parts) ==
    LET r == ScriptPartsLoop(script_parts, <<>>)
    IN IF r.err # "none" THEN [err |-> r.err, hex |-> <<>>]
       ELSE ListHex(r.bytes)

ScriptParts(alice_pubkey, bob_pubkey, timelock, hashlock) ==
    << N_OP_DUP, N_OP_HASH160, PushData(hashlock), N_OP_EQUALVERIFY, N_OP_DROP,
       PushData(bob_pubkey), N_OP_CHECKSIG, N_OP_IF, N_OP_ELSE,
       PushData(IntToStr(timelock)), N_OP_CHECKLOCKTIMEVERIFY, N_OP_DROP,
       PushData(alice_pubkey), N_OP_CHECKSIG, N_OP_ENDIF >>

(***************************************************************************)
(* _script_to_p2sh_address: version byte, HASH160 of the program, 4-byte   *)
(* checksum, base58.  The digests are the library's; the tables hold their *)
(* values on the programs the model uses.                                  *)
(***************************************************************************)
SCRIPT_HEX == <<"7","6","a","9">>

\* a program of 66 bytes: the two public keys of the fixtures, one after the other
SAMPLE_SCRIPT_HEX == <<"0","2">> \o Rep("a", 64) \o <<"0","2">> \o Rep("b", 64)

\* hashlib.new('ripemd160', hashlib.sha256(script_bytes).digest()).digest()
Hash160Bytes(b) ==
    CASE b = <<118,169>> ->
           <<244,131,187,188,144,222,90,226,49,149,17,170,63,126,53,137,127,159,207,103>>
      [] b = <<2>> \o Rep(170, 32) \o <<2>> \o Rep(187, 32) ->
           <<107,59,24,11,195,234,153,23,242,184,130,223,182,46,221,160,113,134,190,215>>
      [] b = <<>> ->
           <<180,114,162,102,208,189,137,193,55,6,164,19,44,207,177,111,124,59,159,203>>
      [] b = <<0>> ->
           <<159,127,208,150,211,126,210,192,227,247,240,207,201,36,190,239,79,252,235,104>>

\* hashlib.sha256(hashlib.sha256(b).digest()).digest()
Sha256d(b) ==
    CASE b = <<5,244,131,187,188,144,222,90,226,49,149,17,170,63,126,53,137,127,159,207,103>> ->
           <<167,224,44,230,199,218,29,181,29,99,81,43,111,49,22,238,84,249,170,69,63,121,169,198,193,218,168,171,180,101,111,170>>
      [] b = <<5,107,59,24,11,195,234,153,23,242,184,130,223,182,46,221,160,113,134,190,215>> ->
           <<239,36,210,62,60,137,8,144,206,67,12,121,197,33,148,56,201,23,92,41,199,36,152,124,11,203,64,46,145,199,84,65>>
      [] b = <<5,180,114,162,102,208,189,137,193,55,6,164,19,44,207,177,111,124,59,159,203>> ->
           <<129,252,252,2,183,29,231,46,145,104,74,121,227,145,216,51,95,154,115,204,9,62,187,226,0,176,186,76,133,106,58,242>>
      [] b = <<5,159,127,208,150,211,126,210,192,227,247,240,207,201,36,190,239,79,252,235,104>> ->
           <<217,19,237,245,252,131,169,172,12,98,187,193,55,255,27,107,189,39,251,136,226,109,79,57,207,255,236,124,40,232,85,20>>

B58Alphabet ==
    <<"1","2","3","4","5","6","7","8","9","A","B","C","D","E","F","G","H","J","K","L","M","N","P","Q","R","S","T","U","V","W","X","Y","Z","a","b","c","d","e","f","g","h","i","j","k","m","n","o","p","q","r","s","t","u","v","w","x","y","z">>

\* one long division of a big-endian base-256 number by 58
RECURSIVE DivMod58(_, _, _)
DivMod58(b, q, r) ==
    IF b = <<>> THEN [q |-> q, r |-> r]
    ELSE LET cur == r * 256 + Head(b)
         IN DivMod58(Tail(b), Append(q, cur \div 58), cur % 58)

RECURSIVE StripZeros(_)
StripZeros(b) == IF b # <<>> /\ Head(b) = 0 THEN StripZeros(Tail(b)) ELSE b

RECURSIVE B58Digits(_)
B58Digits(b) ==
    IF StripZeros(b) = <<>> THEN <<>>
    ELSE LET d == DivMod58(StripZeros(b), <<>>, 0)
         IN Append(B58Digits(d.q), B58Alphabet[d.r + 1])

\* base58.b58encode: one '1' per leading zero byte, then the base-58 digits
b58encode(b) == Rep("1", Len(b) - Len(StripZeros(b))) \o B58Digits(b)

\* b = 58 * b + c on big-endian bytes without leading zeros
RECURSIVE MulAdd58(_, _)
MulAdd58(b, c) ==
    IF b = <<>> THEN (IF c = 0 THEN <<>> ELSE <<c>>)
    ELSE LET v == b[Len(b)] * 58 + c
         IN Append(MulAdd58(SubSeq(b, 1, Len(b) - 1), v \div 256), v % 256)

RECURSIVE B58Number(_)
B58Number(s) ==
    IF s = <<>> THEN <<>>
    ELSE MulAdd58(B58Number(SubSeq(s, 1, Len(s) - 1)),
                  (CHOOSE i \in 1..Len(B58Alphabet) : B58Alphabet[i] = s[Len(s)]) - 1)

RECURSIVE LeadingOnes(_)
LeadingOnes(s) ==
    IF s # <<>> /\ Head(s) = "1" THEN 1 + LeadingOnes(Tail(s)) ELSE 0

\* base58.b58decode: one zero byte per leading '1', then the number's bytes
b58decode(s) == Rep(0, LeadingOnes(s)) \o B58Number(s)

\* the version byte of line 140
P2SH_VERSION == 5

\* _script_to_p2sh_address with the checksum taken from the end of the digest
script_to_p2sh_address_checksum_tail(script_hex) ==
    LET script_bytes == FromHex(script_hex).bytes
        ripemd160_hash == Hash160Bytes(script_bytes)
        version_script_hash == <<P2SH_VERSION>> \o ripemd160_hash
        checksum == SubSeq(Sha256d(version_script_hash), 29, 32)
        address_bytes == version_script_hash \o checksum
    IN b58encode(address_bytes)

script_to_p2sh_address(script_hex) ==
    LET script_bytes == FromHex(script_hex).bytes
        ripemd160_hash == Hash160Bytes(script_bytes)
        version_script_hash == <<P2SH_VERSION>> \o ripemd160_hash
        checksum == SubSeq(Sha256d(version_script_hash), 1, 4)
        address_bytes == version_script_hash \o checksum
    IN b58encode(address_bytes)

(***************************************************************************)
(* HTCLScriptGenerator.create: the result is [err, ret, compiled], where   *)
(* compiled tells whether _script_parts_to_hex was entered.                *)
(***************************************************************************)
\* create with the timelock check off by one (timelock < 0)
create_accepts_zero_timelock(alice_pubkey, bob_pubkey, timelock, hashlock) ==
    IF ~Truthy(alice_pubkey) \/ ~Truthy(bob_pubkey)
    THEN [err |-> "ValueError", ret |-> None, compiled |-> FALSE]
    ELSE IF timelock < 0
    THEN [err |-> "ValueError", ret |-> None, compiled |-> FALSE]
    ELSE IF ~Truthy(hashlock) \/ Len(hashlock) # 40
    THEN [err |-> "ValueError", ret |-> None, compiled |-> FALSE]
    ELSE LET h == script_parts_to_hex(
                      ScriptParts(alice_pubkey, bob_pubkey, timelock, hashlock))
         IN IF h.err # "none"
            THEN [err |-> h.err, ret |-> None, compiled |-> TRUE]
            ELSE [err |-> "none",
                  ret |-> HTCLScript(alice_pubkey, bob_pubkey, timelock, hashlock,
                                     h.hex, script_to_p2sh_address(h.hex)),
                  compiled |-> TRUE]

create(alice_pubkey, bob_pubkey, timelock, hashlock) ==
    IF ~Truthy(alice_pubkey) \/ ~Truthy(bob_pubkey)
    THEN [err |-> "ValueError", ret |-> None, compiled |-> FALSE]
    ELSE IF timelock <= 0
    THEN [err |-> "ValueError", ret |-> None, compiled |-> FALSE]
    ELSE IF ~Truthy(hashlock) \/ Len(hashlock) # 40
    THEN [err |-> "ValueError", ret |-> None, compiled |-> FALSE]
    ELSE LET h == script_parts_to_hex(
                      ScriptParts(alice_pubkey, bob_pubkey, timelock, hashlock))
         IN IF h.err # "none"
            THEN [err |-> h.err, ret |-> None, compiled |-> TRUE]
            ELSE [err |-> "none",
                  ret |-> HTCLScript(alice_pubkey, bob_pubkey, timelock, hashlock,
                                     h.hex, script_to_p2sh_address(h.hex)),
                  compiled |-> TRUE]

(***************************************************************************)
(* HTCLScriptGenerator.validate_script.  bytes.fromhex raises ValueError,  *)
(* which the method catches and turns into False.                          *)
(***************************************************************************)
MinScriptBytes == 50
MaxScriptBytes == 1000

validate_script(s) ==
    LET script_bytes == FromHex(s.script_hex)
    IN IF script_bytes.err # "none" THEN FALSE
       ELSE IF Len(script_bytes.bytes) < MinScriptBytes
               \/ Len(script_bytes.bytes) > MaxScriptBytes THEN FALSE
       ELSE IF ~StartsWith(s.p2sh_address, <<"3">>) THEN FALSE
       ELSE IF FromHex(s.hashlock).err # "none" THEN FALSE
       ELSE IF FromHex(s.alice_pubkey).err # "none" THEN FALSE
       ELSE IF FromHex(s.bob_pubkey).err # "none" THEN FALSE
       ELSE TRUE

(***************************************************************************)
(* class HTCLScriptValidator.  An exception inside either method is caught *)
(* and gives False; on str arguments none is raised.                       *)
(***************************************************************************)
MinSignatureLength == 64

\* validate_bob_spending with the length check off by one (<= 64)
validate_bob_spending_sig_off_by_one(s, secret, signature, pubkey) ==
    IF Hash160Hex(secret) # s.hashlock THEN FALSE
    ELSE IF pubkey # s.bob_pubkey THEN FALSE
    ELSE IF ~Truthy(signature) \/ Len(signature) <= MinSignatureLength THEN FALSE
    ELSE TRUE

validate_bob_spending(s, secret, signature, pubkey) ==
    IF Hash160Hex(secret) # s.hashlock THEN FALSE
    ELSE IF pubkey # s.bob_pubkey THEN FALSE
    ELSE IF ~Truthy(signature) \/ Len(signature) < MinSignatureLength THEN FALSE
    ELSE TRUE

\* validate_alice_spending with an exclusive boundary (current_block <= timelock)
validate_alice_spending_exclusive(s, signature, pubkey, current_block) ==
    IF current_block <= s.timelock THEN FALSE
    ELSE IF pubkey # s.alice_pubkey THEN FALSE
    ELSE IF ~Truthy(signature) \/ Len(signature) < MinSignatureLength THEN FALSE
    ELSE TRUE

validate_alice_spending(s, signature, pubkey, current_block) ==
    IF current_block < s.timelock THEN FALSE
    ELSE IF pubkey # s.alice_pubkey THEN FALSE
    ELSE IF ~Truthy(signature) \/ Len(signature) < MinSignatureLength THEN FALSE
    ELSE TRUE

(***************************************************************************)
(* class HTCLTransaction (dataclass) and class HTCLTransactionBuilder.     *)
(* A builder method's result is [err, ret].                                *)
(***************************************************************************)
HTCLTransaction(txid, version, inputs, outputs, locktime) ==
    [txid |-> txid, version |-> version, inputs |-> inputs,
     outputs |-> outputs, locktime |-> locktime,
     script_sig |-> None, witness |-> None]

\* HTCLTransactionBuilder.__init__
NewBuilder(network) == [network |-> network, version |-> 1, locktime |-> 0]

\* 0xffffffff, kept as text: it is stored, never computed with
SEQUENCE_FINAL == "0xffffffff"

RECURSIVE SumAmounts(_)
SumAmounts(utxos) ==
    IF utxos = <<>> THEN 0 ELSE Head(utxos).amount + SumAmounts(Tail(utxos))

\* create_funding_transaction emitting the change output also when it is 0
create_funding_transaction_zero_change(b, s, amount, fee, input_utxos, change_address) ==
    LET total_input == SumAmounts(input_utxos)
        change_amount == total_input - amount - fee
        inputs == [i \in 1..Len(input_utxos) |->
                     [txid |-> input_utxos[i].txid, vout |-> input_utxos[i].vout,
                      script_sig |-> <<>>, sequence |-> SEQUENCE_FINAL]]
        htcl_output == [value |-> amount,
                        script_pubkey |-> STR_P2SH_PRE \o s.p2sh_address \o STR_P2SH_POST,
                        address |-> s.p2sh_address]
        change_output == [value |-> change_amount,
                          script_pubkey |-> STR_P2PKH_PRE \o change_address \o STR_P2PKH_POST,
                          address |-> change_address]
    IN IF change_amount < 0
       THEN [err |-> "ValueError", ret |-> None]
       ELSE [err |-> "none",
             ret |-> HTCLTransaction(<<>>, b.version, inputs,
                                     <<htcl_output, change_output>>, b.locktime)]

\* create_funding_transaction with the fee left out of the funds check
create_funding_transaction_fee_unchecked(b, s, amount, fee, input_utxos, change_address) ==
    LET total_input == SumAmounts(input_utxos)
        change_amount == total_input - amount - fee
        inputs == [i \in 1..Len(input_utxos) |->
                     [txid |-> input_utxos[i].txid, vout |-> input_utxos[i].vout,
                      script_sig |-> <<>>, sequence |-> SEQUENCE_FINAL]]
        htcl_output == [value |-> amount,
                        script_pubkey |-> STR_P2SH_PRE \o s.p2sh_address \o STR_P2SH_POST,
                        address |-> s.p2sh_address]
        change_output == [value |-> change_amount,
                          script_pubkey |-> STR_P2PKH_PRE \o change_address \o STR_P2PKH_POST,
                          address |-> change_address]
        outputs == IF change_amount > 0 THEN <<htcl_output, change_output>>
                   ELSE <<htcl_output>>
    IN IF total_input - amount < 0
       THEN [err |-> "ValueError", ret |-> None]
       ELSE [err |-> "none",
             ret |-> HTCLTransaction(<<>>, b.version, inputs, outputs, b.locktime)]

create_funding_transaction(b, s, amount, fee, input_utxos, change_address) ==
    LET total_input == SumAmounts(input_utxos)
        change_amount == total_input - amount - fee
        inputs == [i \in 1..Len(input_utxos) |->
                     [txid |-> input_utxos[i].txid, vout |-> input_utxos[i].vout,
                      script_sig |-> <<>>, sequence |-> SEQUENCE_FINAL]]
        htcl_output == [value |-> amount,
                        script_pubkey |-> STR_P2SH_PRE \o s.p2sh_address \o STR_P2SH_POST,
                        address |-> s.p2sh_address]
        change_output == [value |-> change_amount,
                          script_pubkey |-> STR_P2PKH_PRE \o change_address \o STR_P2PKH_POST,
                          address |-> change_address]
        outputs == IF change_amount > 0 THEN <<htcl_output, change_output>>
                   ELSE <<htcl_output>>
    IN IF change_amount < 0
       THEN [err |-> "ValueError", ret |-> None]
       ELSE [err |-> "none",
             ret |-> HTCLTransaction(<<>>, b.version, inputs, outputs, b.locktime)]

create_bob_withdrawal_transaction(b, s, secret, amount, fee, bob_private_key, bob_address) ==
    IF ~validate_bob_spending(s, secret, DUMMY_SIGNATURE, s.bob_pubkey)
    THEN [err |-> "ValueError", ret |-> None]
    ELSE LET input_data == [txid |-> PREVIOUS_TXID, vout |-> 0,
                            script_sig |-> secret \o <<" ">> \o s.script_hex,
                            sequence |-> SEQUENCE_FINAL]
             outputs == << [value |-> amount - fee,
                            script_pubkey |-> STR_P2PKH_PRE \o bob_address \o STR_P2PKH_POST,
                            address |-> bob_address] >>
         IN [err |-> "none",
             ret |-> HTCLTransaction(<<>>, b.version, <<input_data>>, outputs, b.locktime)]

create_alice_withdrawal_transaction(b, s, amount, fee, alice_private_key, alice_address, current_block) ==
    IF ~validate_alice_spending(s, DUMMY_SIGNATURE, s.alice_pubkey, current_block)
    THEN [err |-> "ValueError", ret |-> None]
    ELSE LET input_data == [txid |-> PREVIOUS_TXID, vout |-> 0,
                            script_sig |-> IntToStr(s.timelock) \o <<" ">> \o s.script_hex,
                            sequence |-> SEQUENCE_FINAL]
             outputs == << [value |-> amount - fee,
                            script_pubkey |-> STR_P2PKH_PRE \o alice_address \o STR_P2PKH_POST,
                            address |-> alice_address] >>
         IN [err |-> "none",
             ret |-> HTCLTransaction(<<>>, b.version, <<input_data>>, outputs, b.locktime)]

(***************************************************************************)
(* class HTCLTransactionValidator.  Each method catches every exception    *)
(* and gives False; on records with dict entries and str fields none is    *)
(* raised.                                                                 *)
(***************************************************************************)
\* sub in s (str.__contains__)
Contains(s, sub) ==
    \E i \in 0..(Len(s) - Len(sub)) : SubSeq(s, i + 1, i + Len(sub)) = sub

validate_funding_transaction(tx, s) ==
    LET htcl_output == \E i \in 1..Len(tx.outputs) :
                           tx.outputs[i].address = s.p2sh_address
    IN IF ~htcl_output THEN FALSE
       ELSE IF ~validate_script(s) THEN FALSE
       ELSE TRUE

validate_bob_withdrawal_transaction(tx, s, secret) ==
    IF tx.inputs = <<>> THEN FALSE
    ELSE LET input_script == tx.inputs[1].script_sig
         IN IF ~Contains(input_script, secret) THEN FALSE
            ELSE IF ~validate_bob_spending(s, secret, DUMMY, s.bob_pubkey) THEN FALSE
            ELSE TRUE

validate_alice_withdrawal_transaction(tx, s, current_block) ==
    IF tx.inputs = <<>> THEN FALSE
    ELSE LET input_script == tx.inputs[1].script_sig
         IN IF ~Contains(input_script, IntToStr(s.timelock)) THEN FALSE
            ELSE IF current_block < s.timelock THEN FALSE
            ELSE TRUE

(***************************************************************************)
(* class HTCLTransactionSerializer.  A JSON document is a tree of tagged   *)
(* values: str (a text), int (its decimal text), null, list, and dict (a   *)
(* sequence of [k, v] in insertion order).  json.dumps writes the tree as  *)
(* text and json.loads reads the text back.  An Optional field of a record *)
(* is None or [some |-> value].                                            *)
(***************************************************************************)
QUOTE == "\""
BACKSLASH == "\\"
NEWLINE == "\n"

JStr(s) == [t |-> "str", v |-> s]
JInt(digits) == [t |-> "int", v |-> digits]
JNull == [t |-> "null"]
JList(items) == [t |-> "list", v |-> items]
JDict(pairs) == [t |-> "dict", v |-> pairs]

Some(v) == [some |-> v]
IsNone(v) == "none" \in DOMAIN v

\* the text of a str with the escapes json.dumps writes
RECURSIVE JsonEscape(_)
JsonEscape(s) ==
    IF s = <<>> THEN <<>>
    ELSE IF Len(s) = 1
    THEN CASE s[1] = QUOTE -> <<BACKSLASH, QUOTE>>
           [] s[1] = BACKSLASH -> <<BACKSLASH, BACKSLASH>>
           [] s[1] = NEWLINE -> <<BACKSLASH, "n">>
           [] OTHER -> s
    ELSE JsonEscape(SubSeq(s, 1, Len(s) \div 2))
         \o JsonEscape(SubSeq(s, Len(s) \div 2 + 1, Len(s)))

\* json.dumps(obj, indent=2): level is the depth of the value
RECURSIVE Dumps(_, _)
RECURSIVE DumpItems(_, _, _)
DumpItems(items, level, is_dict) ==
    IF items = <<>> THEN <<>>
    ELSE <<NEWLINE>> \o Rep(" ", 2 * level)
         \o (IF is_dict
             THEN <<QUOTE>> \o JsonEscape(Head(items).k) \o <<QUOTE, ":", " ">>
                  \o Dumps(Head(items).v, level)
             ELSE Dumps(Head(items), level))
         \o (IF Len(items) > 1 THEN <<",">> ELSE <<>>)
         \o DumpItems(Tail(items), level, is_dict)

Dumps(j, level) ==
    CASE j.t = "str" -> <<QUOTE>> \o JsonEscape(j.v) \o <<QUOTE>>
      [] j.t = "int" -> j.v
      [] j.t = "null" -> <<"n", "u", "l", "l">>
      [] j.t = "list" ->
           IF j.v = <<>> THEN <<"[", "]">>
           ELSE <<"[">> \o DumpItems(j.v, level + 1, FALSE)
                \o <<NEWLINE>> \o Rep(" ", 2 * level) \o <<"]">>
      [] j.t = "dict" ->
           IF j.v = <<>> THEN <<"{", "}">>
           ELSE <<"{">> \o DumpItems(j.v, level + 1, TRUE)
                \o <<NEWLINE>> \o Rep(" ", 2 * level) \o <<"}">>

\* json.loads, on text that is a JSON document.  A parse gives [v, i]: the
\* value read and the position after it.
RECURSIVE SkipWs(_, _)
SkipWs(s, i) ==
    IF i <= Len(s) /\ s[i] \in {" ", NEWLINE, "\t", "\r"} THEN SkipWs(s, i + 1) ELSE i

\* s[p] is a backslash that begins an escape: it stands at an even distance
\* from the start of its run of backslashes
EscapeLeader(s, p) ==
    /\ p >= 1
    /\ s[p] = BACKSLASH
    /\ LET start == CHOOSE k \in 1..p :
                       /\ \A m \in k..p : s[m] = BACKSLASH
                       /\ (k = 1 \/ s[k - 1] # BACKSLASH)
       IN (p - start) % 2 = 0

\* the characters of a string from position i (after the opening quote) to
\* the first quote that is not escaped, with the escapes undone
ParseString(s, i) ==
    LET quotes == {j \in i..Len(s) : s[j] = QUOTE /\ ~EscapeLeader(s, j - 1)}
        close == CHOOSE j \in quotes : \A m \in quotes : j <= m
        kept == SelectSeq([n \in 1..(close - i) |-> i + n - 1],
                          LAMBDA p : ~EscapeLeader(s, p))
    IN [v |-> [n \in 1..Len(kept) |->
                  IF EscapeLeader(s, kept[n] - 1) /\ s[kept[n]] = "n"
                  THEN NEWLINE ELSE s[kept[n]]],
        i |-> close + 1]

RECURSIVE ParseNumber(_, _, _)
ParseNumber(s, i, acc) ==
    IF i <= Len(s) /\ s[i] \in {"-", "0", "1", "2", "3", "4", "5", "6", "7", "8", "9"}
    THEN ParseNumber(s, i + 1, Append(acc, s[i]))
    ELSE [v |-> JInt(acc), i |-> i]

RECURSIVE ParseValue(_, _)
RECURSIVE ParseItems(_, _, _)
RECURSIVE ParseMembers(_, _, _)
ParseItems(s, i, acc) ==
    LET j == SkipWs(s, i)
    IN IF s[j] = "]" THEN [v |-> JList(acc), i |-> j + 1]
       ELSE IF s[j] = "," THEN ParseItems(s, j + 1, acc)
       ELSE LET item == ParseValue(s, j)
            IN ParseItems(s, item.i, Append(acc, item.v))

ParseMembers(s, i, acc) ==
    LET j == SkipWs(s, i)
    IN IF s[j] = "}" THEN [v |-> JDict(acc), i |-> j + 1]
       ELSE IF s[j] = "," THEN ParseMembers(s, j + 1, acc)
       ELSE LET key == ParseString(s, j + 1)
                colon == SkipWs(s, key.i)
                value == ParseValue(s, colon + 1)
            IN ParseMembers(s, value.i, Append(acc, [k |-> key.v, v |-> value.v]))

ParseValue(s, i) ==
    LET j == SkipWs(s, i)
    IN CASE s[j] = QUOTE ->
              LET str == ParseString(s, j + 1)
              IN [v |-> JStr(str.v), i |-> str.i]
         [] s[j] = "[" -> ParseItems(s, j + 1, <<>>)
         [] s[j] = "{" -> ParseMembers(s, j + 1, <<>>)
         [] s[j] = "n" -> [v |-> JNull, i |-> j + 4]
         [] OTHER -> ParseNumber(s, j, <<>>)

Loads(s) == ParseValue(s, 1).v

\* the keys of the dicts, as record fields and as text
DictKeys ==
    <<"txid", "version", "vout", "inputs", "outputs", "locktime", "script_sig",
      "sequence", "witness", "value", "script_pubkey", "address">>

KeyText(k) ==
    CASE k = "txid" -> <<"t","x","i","d">>
      [] k = "version" -> <<"v","e","r","s","i","o","n">>
      [] k = "vout" -> <<"v","o","u","t">>
      [] k = "inputs" -> <<"i","n","p","u","t","s">>
      [] k = "outputs" -> <<"o","u","t","p","u","t","s">>
      [] k = "locktime" -> <<"l","o","c","k","t","i","m","e">>
      [] k = "script_sig" -> <<"s","c","r","i","p","t","_","s","i","g">>
      [] k = "sequence" -> <<"s","e","q","u","e","n","c","e">>
      [] k = "witness" -> <<"w","i","t","n","e","s","s">>
      [] k = "value" -> <<"v","a","l","u","e">>
      [] k = "script_pubkey" -> <<"s","c","r","i","p","t","_","p","u","b","k","e","y">>
      [] k = "address" -> <<"a","d","d","r","e","s","s">>

KeyName(text) == DictKeys[CHOOSE i \in 1..Len(DictKeys) : KeyText(DictKeys[i]) = text]

\* 0xffffffff as the decimal text json.dumps writes
SEQUENCE_FINAL_TEXT == <<"4","2","9","4","9","6","7","2","9","5">>

RECURSIVE StrToInt(_)
StrToInt(digits) ==
    IF Head(digits) = "-" THEN 0 - StrToInt(Tail(digits))
    ELSE IF Len(digits) = 1 THEN HexVal(digits[1])
    ELSE 10 * StrToInt(SubSeq(digits, 1, Len(digits) - 1)) + HexVal(digits[Len(digits)])

\* an input or output dict as a tree: txid, script_sig, script_pubkey and
\* address are str, vout and value are int, sequence is 0xffffffff
FieldTree(k, v) ==
    CASE k \in {"txid", "script_sig", "script_pubkey", "address"} -> JStr(v)
      [] k = "sequence" -> JInt(SEQUENCE_FINAL_TEXT)
      [] OTHER -> JInt(IntToStr(v))

DictTree(d) ==
    LET keys == SelectSeq(DictKeys, LAMBDA k : k \in DOMAIN d)
    IN JDict([i \in 1..Len(keys) |-> [k |-> KeyText(keys[i]), v |-> FieldTree(keys[i], d[keys[i]])]])

\* the value a tree stands for
RECURSIVE ValueOf(_)
ValueOf(j) ==
    CASE j.t = "str" -> j.v
      [] j.t = "int" -> IF j.v = SEQUENCE_FINAL_TEXT THEN SEQUENCE_FINAL ELSE StrToInt(j.v)
      [] j.t = "null" -> None
      [] j.t = "list" -> [i \in 1..Len(j.v) |-> ValueOf(j.v[i])]
      [] j.t = "dict" ->
           [k \in {KeyName(j.v[i].k) : i \in 1..Len(j.v)} |->
               ValueOf(j.v[CHOOSE i \in 1..Len(j.v) :
                               /\ KeyName(j.v[i].k) = k
                               /\ \A n \in (i + 1)..Len(j.v) : KeyName(j.v[n].k) # k].v)]

\* data[key]: KeyError when the key is absent
HasKey(data, k) == \E i \in 1..Len(data.v) : data.v[i].k = KeyText(k)

Item(data, k) ==
    data.v[CHOOSE i \in 1..Len(data.v) :
              /\ data.v[i].k = KeyText(k)
              /\ \A n \in (i + 1)..Len(data.v) : data.v[n].k # KeyText(k)].v

\* data.get(key): an Optional value
Get(data, k) ==
    IF ~HasKey(data, k) THEN None
    ELSE IF Item(data, k).t = "null" THEN None
    ELSE Some(ValueOf(Item(data, k)))

\* HTCLTransactionSerializer.to_json
to_json(tx) ==
    Dumps(JDict(<<
        [k |-> KeyText("txid"), v |-> JStr(tx.txid)],
        [k |-> KeyText("version"), v |-> JInt(IntToStr(tx.version))],
        [k |-> KeyText("inputs"),
         v |-> JList([i \in 1..Len(tx.inputs) |-> DictTree(tx.inputs[i])])],
        [k |-> KeyText("outputs"),
         v |-> JList([i \in 1..Len(tx.outputs) |-> DictTree(tx.outputs[i])])],
        [k |-> KeyText("locktime"), v |-> JInt(IntToStr(tx.locktime))],
        [k |-> KeyText("script_sig"),
         v |-> IF IsNone(tx.script_sig) THEN JNull ELSE JStr(tx.script_sig.some)],
        [k |-> KeyText("witness"),
         v |-> IF IsNone(tx.witness) THEN JNull
               ELSE JList([i \in 1..Len(tx.witness.some) |-> JStr(tx.witness.some[i])])]
        >>), 0)

\* from_json reading locktime from the version key
from_json_locktime_from_version(json_str) ==
    LET data == Loads(json_str)
    IN IF \E k \in {"txid", "version", "inputs", "outputs", "locktime"} : ~HasKey(data, k)
       THEN [err |-> "KeyError", ret |-> None]
       ELSE [err |-> "none",
             ret |-> [txid |-> ValueOf(Item(data, "txid")),
                      version |-> ValueOf(Item(data, "version")),
                      inputs |-> ValueOf(Item(data, "inputs")),
                      outputs |-> ValueOf(Item(data, "outputs")),
                      locktime |-> ValueOf(Item(data, "version")),
                      script_sig |-> Get(data, "script_sig"),
                      witness |-> Get(data, "witness")]]

\* HTCLTransactionSerializer.from_json
from_json(json_str) ==
    LET data == Loads(json_str)
    IN IF \E k \in {"txid", "version", "inputs", "outputs", "locktime"} : ~HasKey(data, k)
       THEN [err |-> "KeyError", ret |-> None]
       ELSE [err |-> "none",
             ret |-> [txid |-> ValueOf(Item(data, "txid")),
                      version |-> ValueOf(Item(data, "version")),
                      inputs |-> ValueOf(Item(data, "inputs")),
                      outputs |-> ValueOf(Item(data, "outputs")),
                      locktime |-> ValueOf(Item(data, "locktime")),
                      script_sig |-> Get(data, "script_sig"),
                      witness |-> Get(data, "witness")]]

(***************************************************************************)
(* The example flows (src/examples).  Each flow is a script run in its     *)
(* own directory; it reads the clock and the JSON files of the directory.  *)
(* env is [cwd, clock, files]: the directory, time.time() in whole         *)
(* seconds, and the parsed content of each file (None when absent).        *)
(***************************************************************************)
\* a reading of time.time(): 2025-11-05 00:00:00 UTC
T0 == 1762300800

\* ord(c) on the characters the flows encode: digits, letters and "_"
Digits == <<"0","1","2","3","4","5","6","7","8","9">>
UpperCase == <<"A","B","C","D","E","F","G","H","I","J","K","L","M","N","O","P","Q","R","S","T","U","V","W","X","Y","Z">>
LowerCase == <<"a","b","c","d","e","f","g","h","i","j","k","l","m","n","o","p","q","r","s","t","u","v","w","x","y","z">>

IndexOf(seq, c) == CHOOSE i \in 1..Len(seq) : seq[i] = c

Ord(c) ==
    CASE \E i \in 1..Len(Digits) : Digits[i] = c -> 47 + IndexOf(Digits, c)
      [] \E i \in 1..Len(UpperCase) : UpperCase[i] = c -> 64 + IndexOf(UpperCase, c)
      [] c = "_" -> 95
      [] \E i \in 1..Len(LowerCase) : LowerCase[i] = c -> 96 + IndexOf(LowerCase, c)

Encode(s) == [i \in 1..Len(s) |-> Ord(s[i])]

HexDigit(n) == <<"0","1","2","3","4","5","6","7","8","9","a","b","c","d","e","f">>[n + 1]

\* bytes.hex()
BytesToHex(b) ==
    [i \in 1..(2 * Len(b)) |->
        IF i % 2 = 1 THEN HexDigit(b[(i + 1) \div 2] \div 16)
        ELSE HexDigit(b[i \div 2] % 16)]

MNEMONIC_TEST == "test test test test test test test test test test test junk"
MNEMONIC_ABANDON == "abandon abandon abandon abandon abandon abandon abandon abandon abandon abandon abandon about"
PRIVATE_KEY_TEST == <<"a","c","0","9","7","4","b","e","c","3","9","a","1","7","e","3","6","b","a","4","a","6","b","4","d","2","3","8","f","f","9","4","4","b","a","c","b","4","7","8","c","b","e","d","5","e","f","c","a","e","7","8","4","d","7","b","f","4","f","2","f","f","8","0">>
PRIVATE_KEY_ABANDON == <<"1","a","b","4","2","c","c","4","1","2","b","6","1","8","b","d","e","a","3","a","5","9","9","e","3","c","9","b","a","e","1","9","9","e","b","f","0","3","0","8","9","5","b","0","3","9","e","9","d","b","1","e","3","0","d","a","f","b","1","2","b","7","2","7">>
PRIVATE_KEY_MAIN == <<"1","2","3","4","5","6","7","8","9","0","a","b","c","d","e","f","1","2","3","4","5","6","7","8","9","0","a","b","c","d","e","f","1","2","3","4","5","6","7","8","9","0","a","b","c","d","e","f","1","2","3","4","5","6","7","8","9","0","a","b","c","d","e","f">>

\* hdwallet.from_mnemonic(mnemonic), hdwallet.from_path(derivation_path),
\* hdwallet.private_key() and hdwallet.address(): the BIP39/BIP44 derivation
\* of the library on the default path, as a table on the mnemonics of the source
HDWallet(mnemonic) ==
    CASE mnemonic = MNEMONIC_TEST ->
           [private_key |-> PRIVATE_KEY_TEST,
            address |-> "0xf39Fd6e51aad88F6F4ce6aB8827279cffFb92266"]
      [] mnemonic = MNEMONIC_ABANDON ->
           [private_key |-> PRIVATE_KEY_ABANDON,
            address |-> "0x9858EfFD232B4033E47d90003D41EC34EcaEda94"]

\* Account.from_key(STR_0x + private_key).address, as a table
AccountAddress(private_key) ==
    CASE private_key = PRIVATE_KEY_MAIN -> "0x1Be31A94361a391bBaFB2a4CCd704F57dc04d4bb"
      [] private_key = PRIVATE_KEY_TEST -> "0xf39Fd6e51aad88F6F4ce6aB8827279cffFb92266"

STR_SECRET_MESSAGE == <<"H","T","C","L","_","C","R","O","S","S","_","C","H","A","I","N","_","S","E","C","R","E","T","_">>

\* f"HTCL_CROSS_CHAIN_SECRET_{timestamp}"
SecretMessage(timestamp) == STR_SECRET_MESSAGE \o IntToStr(timestamp)

\* the keys and the messages of the table below
KEY_TEXT_TEST == Encode(PRIVATE_KEY_TEST)
KEY_TEXT_ABANDON == Encode(PRIVATE_KEY_ABANDON)
KEY_TEXT_MAIN == Encode(PRIVATE_KEY_MAIN)
KEY_TEXT_0X_MAIN == Encode(STR_0x \o PRIVATE_KEY_MAIN)
KEY_TEXT_0X_TEST == Encode(STR_0x \o PRIVATE_KEY_TEST)
KEY_BYTES_MAIN == FromHex(PRIVATE_KEY_MAIN).bytes
KEY_BYTES_TEST == FromHex(PRIVATE_KEY_TEST).bytes
MESSAGE_HOUR_0 == SecretMessage(T0)
MESSAGE_HOUR_1 == SecretMessage(T0 + 3600)
MESSAGE_HOUR_2 == SecretMessage(T0 + 7200)
MESSAGE_HOUR_3 == SecretMessage(T0 + 10800)

\* hmac.new(key, message.encode(), hashlib.sha256).digest(): the library's
\* values on the keys and the hours of the model
HmacSha256(key, message) ==
    CASE key = KEY_TEXT_MAIN /\ message = MESSAGE_HOUR_0 ->
           <<171,66,233,94,207,129,203,226,134,160,24,10,23,36,113,3,107,118,234,187,191,37,109,33,126,77,80,15,63,186,31,55>>
      [] key = KEY_TEXT_MAIN /\ message = MESSAGE_HOUR_1 ->
           <<200,60,0,248,146,0,120,24,70,14,82,231,233,172,224,154,60,95,142,189,36,23,177,204,206,38,66,28,192,210,104,111>>
      [] key = KEY_TEXT_MAIN /\ message = MESSAGE_HOUR_2 ->
           <<190,8,186,15,95,236,62,19,172,59,72,191,121,121,223,53,88,203,191,138,114,148,96,201,105,201,137,188,214,82,135,158>>
      [] key = KEY_TEXT_MAIN /\ message = MESSAGE_HOUR_3 ->
           <<126,44,153,84,5,201,49,130,204,166,11,154,167,46,166,176,90,162,156,118,54,152,56,106,249,151,28,113,205,158,211,234>>
      [] key = KEY_TEXT_0X_MAIN /\ message = MESSAGE_HOUR_0 ->
           <<1,102,190,206,3,188,100,233,3,111,61,185,86,90,42,109,174,118,82,148,193,144,173,58,91,140,58,113,163,124,248,6>>
      [] key = KEY_TEXT_0X_MAIN /\ message = MESSAGE_HOUR_1 ->
           <<125,112,52,60,181,219,31,216,150,113,193,46,226,253,157,238,18,8,15,97,104,133,150,54,6,27,2,126,71,196,97,198>>
      [] key = KEY_TEXT_0X_MAIN /\ message = MESSAGE_HOUR_2 ->
           <<96,187,105,20,124,61,210,228,112,92,63,174,206,58,96,221,133,44,61,77,118,168,190,223,169,35,236,173,134,93,252,59>>
      [] key = KEY_TEXT_0X_MAIN /\ message = MESSAGE_HOUR_3 ->
           <<8,136,54,43,176,157,216,149,36,132,98,159,93,223,2,135,214,224,61,147,144,96,34,68,53,210,156,188,162,83,192,134>>
      [] key = KEY_TEXT_0X_TEST /\ message = MESSAGE_HOUR_0 ->
           <<77,253,179,170,17,243,177,55,239,68,106,174,247,90,132,125,42,100,155,243,189,221,140,241,212,222,189,171,116,133,202,201>>
      [] key = KEY_TEXT_0X_TEST /\ message = MESSAGE_HOUR_1 ->
           <<239,34,247,246,209,11,195,118,210,79,153,169,237,7,8,47,51,22,165,116,242,63,12,99,61,8,243,134,169,148,81,97>>
      [] key = KEY_TEXT_0X_TEST /\ message = MESSAGE_HOUR_2 ->
           <<185,169,188,62,124,24,228,21,240,122,208,85,68,25,169,201,123,237,158,116,192,22,33,108,143,34,248,58,224,133,136,48>>
      [] key = KEY_TEXT_0X_TEST /\ message = MESSAGE_HOUR_3 ->
           <<60,87,223,227,153,27,168,210,84,59,90,9,19,117,229,196,132,91,52,183,211,103,82,153,3,202,143,10,160,164,87,231>>
      [] key = KEY_TEXT_TEST /\ message = MESSAGE_HOUR_0 ->
           <<47,167,157,131,177,81,4,7,238,53,187,2,239,249,132,3,245,151,132,49,2,178,134,93,112,60,146,85,142,177,189,17>>
      [] key = KEY_TEXT_TEST /\ message = MESSAGE_HOUR_1 ->
           <<207,213,134,74,115,135,73,0,24,102,30,109,14,143,140,46,130,173,217,252,140,178,217,120,239,200,112,60,8,192,186,141>>
      [] key = KEY_TEXT_TEST /\ message = MESSAGE_HOUR_2 ->
           <<182,96,105,43,189,27,121,138,73,192,6,13,11,95,56,217,131,123,63,68,6,104,166,0,158,230,5,8,72,53,51,224>>
      [] key = KEY_TEXT_TEST /\ message = MESSAGE_HOUR_3 ->
           <<215,207,75,33,148,24,175,172,78,42,81,237,103,188,250,79,205,216,144,77,96,183,97,198,155,183,180,241,197,198,127,219>>
      [] key = KEY_TEXT_ABANDON /\ message = MESSAGE_HOUR_0 ->
           <<198,186,243,48,107,219,228,13,80,91,107,148,46,58,188,231,37,143,76,248,9,109,98,31,194,83,210,253,133,191,34,50>>
      [] key = KEY_TEXT_ABANDON /\ message = MESSAGE_HOUR_1 ->
           <<169,223,243,122,168,129,24,171,169,47,68,178,12,94,177,230,63,142,111,45,57,234,240,71,81,109,94,25,101,147,144,156>>
      [] key = KEY_TEXT_ABANDON /\ message = MESSAGE_HOUR_2 ->
           <<108,78,122,12,68,5,235,144,117,131,243,146,73,176,133,221,24,193,138,51,221,73,195,213,89,15,95,123,189,57,41,220>>
      [] key = KEY_TEXT_ABANDON /\ message = MESSAGE_HOUR_3 ->
           <<207,251,47,112,96,218,58,161,255,173,189,8,225,23,66,26,132,198,34,2,116,103,94,108,206,128,11,234,108,68,117,251>>
      [] key = KEY_BYTES_MAIN /\ message = MESSAGE_HOUR_0 ->
           <<65,240,198,198,205,138,103,191,67,217,172,34,233,252,184,122,164,4,236,168,247,144,18,195,147,190,5,119,2,228,197,203>>
      [] key = KEY_BYTES_MAIN /\ message = MESSAGE_HOUR_1 ->
           <<224,28,75,118,57,183,37,89,75,197,207,29,132,188,185,86,73,153,15,98,79,237,84,98,64,100,41,120,69,80,102,36>>
      [] key = KEY_BYTES_MAIN /\ message = MESSAGE_HOUR_2 ->
           <<52,167,211,7,80,148,225,207,18,10,199,24,63,10,200,162,145,222,173,243,125,195,33,124,116,115,128,182,243,12,60,186>>
      [] key = KEY_BYTES_MAIN /\ message = MESSAGE_HOUR_3 ->
           <<94,40,119,145,237,180,121,198,59,177,206,226,39,229,62,112,34,163,21,226,238,19,164,233,59,94,36,7,90,28,0,232>>
      [] key = KEY_BYTES_TEST /\ message = MESSAGE_HOUR_0 ->
           <<148,243,192,158,78,251,112,128,83,148,219,214,218,64,112,112,109,56,221,51,133,232,53,75,209,105,242,210,107,192,59,214>>
      [] key = KEY_BYTES_TEST /\ message = MESSAGE_HOUR_1 ->
           <<56,129,200,217,119,91,86,206,118,89,193,144,124,94,11,228,244,109,125,135,89,184,201,56,185,166,34,36,251,35,64,46>>
      [] key = KEY_BYTES_TEST /\ message = MESSAGE_HOUR_2 ->
           <<93,57,158,7,118,245,150,227,255,14,187,252,88,210,122,189,205,31,101,222,178,98,222,184,99,218,59,52,10,21,221,72>>
      [] key = KEY_BYTES_TEST /\ message = MESSAGE_HOUR_3 ->
           <<22,199,250,196,116,130,194,249,36,52,122,253,36,31,34,2,227,70,92,90,247,44,112,9,12,43,219,117,130,122,6,238>>

\* hashlib.sha256(b).digest(), on the secrets of the model
Sha256(b) ==
    CASE b = <<171,66,233,94,207,129,203,226,134,160,24,10,23,36,113,3,107,118,234,187,191,37,109,33,126,77,80,15,63,186,31,55>> ->
           <<64,74,176,216,145,248,175,68,214,84,213,228,228,240,158,126,226,23,19,62,121,128,247,24,82,87,186,138,61,158,226,233>>
      [] b = <<200,60,0,248,146,0,120,24,70,14,82,231,233,172,224,154,60,95,142,189,36,23,177,204,206,38,66,28,192,210,104,111>> ->
           <<247,169,38,91,233,19,153,224,102,180,5,141,7,1,45,201,80,108,47,131,192,120,13,102,153,173,25,204,14,182,223,51>>
      [] b = <<190,8,186,15,95,236,62,19,172,59,72,191,121,121,223,53,88,203,191,138,114,148,96,201,105,201,137,188,214,82,135,158>> ->
           <<251,206,97,222,18,7,239,156,193,24,239,228,102,196,144,145,97,138,115,150,174,69,131,162,70,189,58,208,171,118,20,19>>
      [] b = <<126,44,153,84,5,201,49,130,204,166,11,154,167,46,166,176,90,162,156,118,54,152,56,106,249,151,28,113,205,158,211,234>> ->
           <<62,56,175,212,180,34,206,20,190,156,61,241,181,238,146,138,156,249,68,59,19,207,45,72,236,29,13,15,195,45,79,183>>
      [] b = <<1,102,190,206,3,188,100,233,3,111,61,185,86,90,42,109,174,118,82,148,193,144,173,58,91,140,58,113,163,124,248,6>> ->
           <<165,114,211,89,156,222,250,6,68,16,254,155,29,125,195,122,85,140,210,215,80,248,52,136,136,95,245,23,96,65,12,120>>
      [] b = <<125,112,52,60,181,219,31,216,150,113,193,46,226,253,157,238,18,8,15,97,104,133,150,54,6,27,2,126,71,196,97,198>> ->
           <<240,214,177,238,226,45,177,156,5,101,90,197,130,129,94,115,246,216,78,34,170,174,186,172,112,100,238,83,154,72,161,82>>
      [] b = <<96,187,105,20,124,61,210,228,112,92,63,174,206,58,96,221,133,44,61,77,118,168,190,223,169,35,236,173,134,93,252,59>> ->
           <<89,29,5,175,248,111,248,160,27,64,111,183,167,223,199,189,166,0,6,19,18,135,149,180,137,79,37,227,154,222,193,192>>
      [] b = <<8,136,54,43,176,157,216,149,36,132,98,159,93,223,2,135,214,224,61,147,144,96,34,68,53,210,156,188,162,83,192,134>> ->
           <<185,25,12,142,191,43,114,33,3,89,82,38,51,95,76,255,77,155,154,169,158,247,74,246,94,23,69,111,74,58,120,80>>
      [] b = <<77,253,179,170,17,243,177,55,239,68,106,174,247,90,132,125,42,100,155,243,189,221,140,241,212,222,189,171,116,133,202,201>> ->
           <<159,19,225,230,168,243,216,226,75,72,70,21,110,227,118,148,235,239,26,153,172,75,173,61,172,222,246,130,43,215,223,217>>
      [] b = <<239,34,247,246,209,11,195,118,210,79,153,169,237,7,8,47,51,22,165,116,242,63,12,99,61,8,243,134,169,148,81,97>> ->
           <<146,233,154,136,3,93,177,163,48,122,83,132,51,55,7,92,249,181,61,46,11,3,86,234,80,118,105,237,221,51,51,217>>
      [] b = <<185,169,188,62,124,24,228,21,240,122,208,85,68,25,169,201,123,237,158,116,192,22,33,108,143,34,248,58,224,133,136,48>> ->
           <<67,178,61,155,154,173,148,102,78,35,58,175,178,51,235,120,56,29,158,166,170,234,163,235,185,204,197,161,164,52,163,208>>
      [] b = <<60,87,223,227,153,27,168,210,84,59,90,9,19,117,229,196,132,91,52,183,211,103,82,153,3,202,143,10,160,164,87,231>> ->
           <<104,208,74,193,101,123,132,24,57,134,87,65,109,203,129,34,172,228,218,241,2,7,223,178,2,4,33,218,227,94,193,77>>
      [] b = <<47,167,157,131,177,81,4,7,238,53,187,2,239,249,132,3,245,151,132,49,2,178,134,93,112,60,146,85,142,177,189,17>> ->
           <<233,130,104,116,244,194,209,83,216,23,244,203,78,105,129,212,1,63,101,201,219,12,9,172,193,182,230,141,186,82,46,123>>
      [] b = <<207,213,134,74,115,135,73,0,24,102,30,109,14,143,140,46,130,173,217,252,140,178,217,120,239,200,112,60,8,192,186,141>> ->
           <<180,176,51,127,95,74,70,20,75,171,136,239,228,211,168,175,208,52,247,9,39,162,186,202,90,123,233,112,54,76,88,55>>
      [] b = <<182,96,105,43,189,27,121,138,73,192,6,13,11,95,56,217,131,123,63,68,6,104,166,0,158,230,5,8,72,53,51,224>> ->
           <<228,173,242,245,118,147,148,136,122,169,94,215,206,57,163,119,140,80,59,130,177,61,216,183,113,162,37,24,103,255,222,145>>
      [] b = <<215,207,75,33,148,24,175,172,78,42,81,237,103,188,250,79,205,216,144,77,96,183,97,198,155,183,180,241,197,198,127,219>> ->
           <<157,241,212,158,150,71,204,14,214,254,64,98,89,86,224,186,249,51,145,170,182,106,186,229,130,58,168,152,169,7,33,22>>
      [] b = <<198,186,243,48,107,219,228,13,80,91,107,148,46,58,188,231,37,143,76,248,9,109,98,31,194,83,210,253,133,191,34,50>> ->
           <<139,226,67,42,175,185,244,60,104,196,159,169,130,200,7,92,144,96,226,129,155,73,115,217,7,66,130,160,200,213,64,139>>
      [] b = <<169,223,243,122,168,129,24,171,169,47,68,178,12,94,177,230,63,142,111,45,57,234,240,71,81,109,94,25,101,147,144,156>> ->
           <<107,32,198,152,12,154,116,116,87,14,7,60,186,64,216,132,96,85,189,52,11,24,248,8,107,137,168,109,152,80,57,15>>
      [] b = <<108,78,122,12,68,5,235,144,117,131,243,146,73,176,133,221,24,193,138,51,221,73,195,213,89,15,95,123,189,57,41,220>> ->
           <<39,151,92,167,137,229,193,228,227,37,249,38,195,255,72,187,251,245,211,69,206,191,54,137,104,183,93,44,246,171,217,147>>
      [] b = <<207,251,47,112,96,218,58,161,255,173,189,8,225,23,66,26,132,198,34,2,116,103,94,108,206,128,11,234,108,68,117,251>> ->
           <<239,215,77,123,184,232,194,149,33,103,132,24,205,180,214,0,68,251,61,96,116,207,248,7,106,137,101,241,214,63,170,146>>
      [] b = <<65,240,198,198,205,138,103,191,67,217,172,34,233,252,184,122,164,4,236,168,247,144,18,195,147,190,5,119,2,228,197,203>> ->
           <<86,30,34,86,227,215,253,60,135,207,4,211,246,239,121,138,178,225,167,214,161,93,133,159,46,12,39,29,224,42,231,140>>
      [] b = <<224,28,75,118,57,183,37,89,75,197,207,29,132,188,185,86,73,153,15,98,79,237,84,98,64,100,41,120,69,80,102,36>> ->
           <<125,5,126,8,198,24,23,97,99,214,98,203,120,93,176,118,85,97,151,194,151,44,127,2,234,105,65,86,180,220,41,224>>
      [] b = <<52,167,211,7,80,148,225,207,18,10,199,24,63,10,200,162,145,222,173,243,125,195,33,124,116,115,128,182,243,12,60,186>> ->
           <<117,215,136,57,240,107,250,244,189,55,105,27,137,93,133,255,143,181,42,52,63,216,206,16,72,37,76,78,155,37,144,246>>
      [] b = <<94,40,119,145,237,180,121,198,59,177,206,226,39,229,62,112,34,163,21,226,238,19,164,233,59,94,36,7,90,28,0,232>> ->
           <<107,136,197,197,19,6,88,237,219,45,34,10,9,151,19,255,78,93,34,103,32,190,217,204,0,2,27,253,45,162,191,92>>
      [] b = <<148,243,192,158,78,251,112,128,83,148,219,214,218,64,112,112,109,56,221,51,133,232,53,75,209,105,242,210,107,192,59,214>> ->
           <<72,35,52,123,146,142,22,255,186,175,130,74,76,136,16,3,23,213,88,196,174,220,247,66,233,172,184,190,172,35,77,51>>
      [] b = <<56,129,200,217,119,91,86,206,118,89,193,144,124,94,11,228,244,109,125,135,89,184,201,56,185,166,34,36,251,35,64,46>> ->
           <<223,162,19,147,209,255,228,14,26,197,96,27,158,2,191,167,53,165,246,97,10,250,221,212,98,199,210,55,104,2,111,140>>
      [] b = <<93,57,158,7,118,245,150,227,255,14,187,252,88,210,122,189,205,31,101,222,178,98,222,184,99,218,59,52,10,21,221,72>> ->
           <<169,183,104,253,186,17,181,89,1,236,23,214,58,119,57,17,83,160,26,117,157,152,132,103,196,127,94,137,142,166,185,49>>
      [] b = <<22,199,250,196,116,130,194,249,36,52,122,253,36,31,34,2,227,70,92,90,247,44,112,9,12,43,219,117,130,122,6,238>> ->
           <<70,121,229,84,43,214,251,250,125,175,37,231,250,253,34,23,36,41,3,101,162,61,148,204,83,129,165,251,207,124,146,10>>


\* int(time.time() / 3600) * 3600, rounding to a two-hour interval instead
RoundToHour_two_hours(t) == (t \div 7200) * 7200

\* int(time.time() / 3600) * 3600
RoundToHour(t) == (t \div 3600) * 3600

\* the body the derivations share: timestamp, message, HMAC, hashlock, result
SecretResult(secret_bytes, address, message, timestamp) ==
    LET secret_hex == STR_0x \o BytesToHex(secret_bytes)
        hashlock == BytesToHex(Sha256(secret_bytes))
        hashlock_hex == STR_0x \o hashlock
    IN [secret |-> secret_hex, secret_bytes |-> secret_bytes,
        hashlock |-> hashlock_hex, wallet_address |-> address,
        message |-> message, timestamp |-> timestamp,
        method |-> "deterministic_hmac"]

DeterministicSecret(key, address, t) ==
    SecretResult(HmacSha256(key, SecretMessage(RoundToHour(t))), address,
                 SecretMessage(RoundToHour(t)), RoundToHour(t))

\* dogecoin-evm/shared_secret.py: hmac is imported at the top of the module
dogecoin_evm_generate_deterministic_secret_from_wallet(mnemonic, t) ==
    LET hdwallet == HDWallet(mnemonic)
    IN [err |-> "none",
        ret |-> DeterministicSecret(Encode(hdwallet.private_key), hdwallet.address, t)]

\* dogecoin-evm/shared_secret.py: Account.from_key takes the key with or
\* without 0x; the HMAC key is private_key.encode(), the characters of the
\* text as it was given
dogecoin_evm_generate_deterministic_secret_from_private_key(private_key, t) ==
    LET key == IF StartsWith(private_key, STR_0x)
               THEN SubSeq(private_key, 3, Len(private_key)) ELSE private_key
        address == AccountAddress(key)
    IN [err |-> "none",
        ret |-> DeterministicSecret(Encode(private_key), address, t)]

\* cosmos-evm/shared_secret.py: the name hmac is bound only by the import in
\* the __main__ block, so it is bound when the module is run as a script
\* (as_main) and unbound (NameError) when the module is imported
cosmos_evm_generate_deterministic_secret_from_wallet(mnemonic, t, as_main) ==
    LET hdwallet == HDWallet(mnemonic)
        r == DeterministicSecret(Encode(hdwallet.private_key), hdwallet.address, t)
    IN IF ~as_main THEN [err |-> "NameError", ret |-> None]
       ELSE [err |-> "none",
             ret |-> [k \in (DOMAIN r \ {"hashlock"}) \cup {",0-0"} |->
                         IF k = ",0-0" THEN r.hashlock ELSE r[k]]]

cosmos_evm_generate_deterministic_secret_from_private_key(private_key, t, as_main) ==
    LET key == IF StartsWith(private_key, STR_0x)
               THEN SubSeq(private_key, 3, Len(private_key)) ELSE private_key
        address == AccountAddress(key)
    IN IF ~as_main THEN [err |-> "NameError", ret |-> None]
       ELSE [err |-> "none",
             ret |-> DeterministicSecret(FromHex(key).bytes, address, t)]

\* a copy of evm_to_cosmos_hashlock with str.lstrip in place of the slice:
\* every leading 0 and x is taken off
evm_to_cosmos_hashlock_lstrip(evm_hashlock) ==
    LET kept == {i \in 1..Len(evm_hashlock) : evm_hashlock[i] \notin {"0", "x"}}
    IN IF kept = {} THEN <<>>
       ELSE SubSeq(evm_hashlock, CHOOSE i \in kept : \A j \in kept : i <= j,
                   Len(evm_hashlock))

\* cosmos-evm/shared_secret.py: the hashlock without its 0x marker
evm_to_cosmos_hashlock(evm_hashlock) ==
    IF StartsWith(evm_hashlock, STR_0x)
    THEN SubSeq(evm_hashlock, 3, Len(evm_hashlock)) ELSE evm_hashlock

\* cosmos-evm/shared_secret.py: the hashlock with the 0x marker
cosmos_to_evm_hashlock(cosmos_hashlock) ==
    IF StartsWith(cosmos_hashlock, STR_0x)
    THEN cosmos_hashlock ELSE STR_0x \o cosmos_hashlock

\* dogecoin-evm/shared_secret.py
evm_to_dogecoin_hashlock(evm_hashlock) ==
    IF StartsWith(evm_hashlock, STR_0x)
    THEN SubSeq(evm_hashlock, 3, Len(evm_hashlock)) ELSE evm_hashlock

dogecoin_to_evm_hashlock(dogecoin_hashlock) ==
    IF StartsWith(dogecoin_hashlock, STR_0x)
    THEN dogecoin_hashlock ELSE STR_0x \o dogecoin_hashlock

(***************************************************************************)
(* The steps of the flows.  A step's result is [err, ret, files]: the      *)
(* exception that ends the script ("none" when it returns), the value      *)
(* returned, and the files of the directory afterwards.                    *)
(***************************************************************************)
\* htcl_transaction.get_current_block_height: int(time.time() / 60)
get_current_block_height(t) == t \div 60

ALICE_SIGNATURE == <<"a","l","i","c","e","_","s","i","g","n","a","t","u","r","e","_","1","2","3","4","5","6","7","8","9","a","b","c","d","e","f">>

\* evm-dogecoin/bob_dogecoin_script.py
create_htcl_on_dogecoin(e) ==
    LET evm_data == e.files.evm IN
    IF evm_data = None THEN [err |-> "none", ret |-> None, files |-> e.files]
    ELSE LET hashlock_dogecoin == evm_data.hashlockDogecoin IN
    IF ~Truthy(hashlock_dogecoin) \/ Len(hashlock_dogecoin) # 64
    THEN [err |-> "none", ret |-> None, files |-> e.files]
    ELSE LET current_block == get_current_block_height(e.clock)
             timelock_block == current_block + 1000
             s == create(ALICE_PUBKEY, BOB_PUBKEY, timelock_block, hashlock_dogecoin)
         IN IF s.err # "none" THEN [err |-> s.err, ret |-> None, files |-> e.files]
            ELSE IF ~validate_script(s.ret)
            THEN [err |-> "none", ret |-> None, files |-> e.files]
            ELSE LET dogecoin_data ==
                         [htclAddress |-> s.ret.p2sh_address,
                          scriptHex |-> s.ret.script_hex,
                          creator |-> evm_data.bobAddress,
                          recipient |-> evm_data.aliceAddress,
                          timelock |-> timelock_block,
                          hashlock |-> hashlock_dogecoin,
                          amount |-> 500000,
                          secret |-> evm_data.secret,
                          evmHtclAddress |-> evm_data.htclAddress,
                          fundingTxid |-> "fedcba0987654321fedcba0987654321fedcba0987654321fedcba0987654321",
                          alicePubkey |-> ALICE_PUBKEY,
                          bobPubkey |-> BOB_PUBKEY]
                 IN [err |-> "none", ret |-> dogecoin_data,
                     files |-> [e.files EXCEPT !.dogecoin = dogecoin_data]]

\* the check of lines 56-61: the step goes on when it is FALSE
timelock_expired(current_time, timelock) == current_time >= timelock

\* evm-dogecoin/alice_dogecoin_withdraw.py
alice_withdraw_on_dogecoin(e) ==
    LET dogecoin_data == e.files.dogecoin IN
    IF dogecoin_data = None THEN [err |-> "none", ret |-> None, files |-> e.files]
    ELSE LET secret == dogecoin_data.secret
             hashlock == dogecoin_data.hashlock
             timelock == dogecoin_data.timelock
             secret_bytes == FromHex(IF StartsWith(secret, STR_0x)
                                     THEN SubSeq(secret, 3, Len(secret)) ELSE secret)
         IN
    IF secret_bytes.err # "none"
    THEN [err |-> secret_bytes.err, ret |-> None, files |-> e.files]
    ELSE IF BytesToHex(Sha256(secret_bytes.bytes)) # hashlock
    THEN [err |-> "none", ret |-> None, files |-> e.files]
    ELSE LET current_time == e.clock IN
    IF timelock_expired(current_time, timelock)
    THEN [err |-> "none", ret |-> None, files |-> e.files]
    ELSE LET s == HTCLScript(dogecoin_data.alicePubkey, dogecoin_data.bobPubkey,
                             timelock, hashlock, dogecoin_data.scriptHex,
                             dogecoin_data.htclAddress)
             is_valid == validate_bob_spending(s, secret, ALICE_SIGNATURE,
                                               dogecoin_data.alicePubkey)
         IN IF ~is_valid THEN [err |-> "none", ret |-> None, files |-> e.files]
            ELSE LET updated == [aliceWithdrawn |-> TRUE,
                                 withdrawTxid |-> "alice_withdrawal_tx_123456789abcdef",
                                 withdrawTimestamp |-> current_time] @@ dogecoin_data
                 IN [err |-> "none", ret |-> updated,
                     files |-> [e.files EXCEPT !.dogecoin = updated]]

\* evm-cosmos/bob_cosmos_script.py
create_htcl_on_cosmos(e) ==
    LET evm_data == e.files.evm IN
    IF evm_data = None THEN [err |-> "none", ret |-> None, files |-> e.files]
    ELSE LET hashlock_cosmos == evm_data.hashlockCosmos
             timelock == evm_data.timelock
         IN
    IF ~Truthy(hashlock_cosmos) \/ Len(hashlock_cosmos) # 64
    THEN [err |-> "none", ret |-> None, files |-> e.files]
    ELSE LET cosmos_data ==
                 [htclAddress |-> "cosmos1htclcontractaddress123456789",
                  creator |-> evm_data.bobAddress,
                  recipient |-> evm_data.aliceAddress,
                  timelock |-> timelock,
                  hashlock |-> hashlock_cosmos,
                  amount |-> evm_data.amount,
                  secret |-> evm_data.secret,
                  evmHtclAddress |-> evm_data.htclAddress]
         IN [err |-> "none", ret |-> cosmos_data,
             files |-> [e.files EXCEPT !.cosmos = cosmos_data]]

\* cosmos-evm/test_flow.py from the derivation on: the records made of its
\* result, and transaction_data.json
SaveTransactionData(e, result) ==
    IF result.err # "none"
       THEN [err |-> "SystemExit", ret |-> None, files |-> e.files]
       ELSE IF "hashlock" \notin DOMAIN result.ret
       THEN [err |-> "SystemExit", ret |-> None, files |-> e.files]
       ELSE LET secret == result.ret.secret
                hashlock == result.ret.hashlock
                timelock == e.clock + 3600
                cosmos_data ==
                    [contractAddress |-> "cosmos1htclcontract123456789",
                     creator |-> "cosmos1alice123456789",
                     recipient |-> "cosmos1bob123456789",
                     timelock |-> timelock,
                     hashlock |-> SubSeq(hashlock, 3, Len(hashlock)),
                     amount |-> "1000000", secret |-> secret]
                evm_data ==
                    [htclAddress |-> "0xHTCLContract123456789012345678901234567890",
                     creator |-> "0xBob123456789012345678901234567890123456",
                     recipient |-> "0xAlice123456789012345678901234567890123456",
                     timelock |-> timelock,
                     hashlock |-> hashlock,
                     amount |-> "1000000000000000000", secret |-> secret]
                transaction_data ==
                    [cosmos |-> cosmos_data, evm |-> evm_data, secret |-> secret,
                     hashlock |-> hashlock,
                     walletAddress |-> result.ret.wallet_address,
                     message |-> result.ret.message,
                     timestamp |-> result.ret.timestamp,
                     method |-> "deterministic_hmac"]
            IN [err |-> "none", ret |-> None,
                files |-> [e.files EXCEPT !.transaction_data = transaction_data]]

\* cosmos-evm/test_flow.py: shared_secret is imported, so hmac is unbound in
\* it; every exception is caught and ends the script with sys.exit(1)
test_cosmos_evm_flow(e) ==
    SaveTransactionData(e, cosmos_evm_generate_deterministic_secret_from_wallet(
                               MNEMONIC_TEST, e.clock, FALSE))

\* cosmos-evm/shared_secret.py generate_secret_and_hashlock, on the 32 bytes
\* secrets.token_bytes returned
generate_secret_and_hashlock(token_bytes) ==
    LET secret_bytes == token_bytes
        secret_hex == STR_0x \o BytesToHex(secret_bytes)
        hashlock == BytesToHex(Sha256(secret_bytes))
        hashlock_hex == STR_0x \o hashlock
    IN [secret |-> secret_hex, secret_bytes |-> secret_bytes,
        hashlock |-> hashlock_hex, method |-> "random"]

\* dict.get(k) of a result: None when the key is absent
GetOrNone(d, k) == IF k \in DOMAIN d THEN Some(d[k]) ELSE None

\* try: ... except Exception: the first result unless it raised
OrElse(first, second) == IF first.err = "none" THEN first ELSE second

\* cosmos-evm/alice_cosmos_script.py from line 57 on: the record made of the
\* result of the secret generation, and its file
SaveCosmosData(e, result) ==
    IF "hashlock" \notin DOMAIN result
       THEN [err |-> "KeyError", ret |-> None, files |-> e.files]
       ELSE LET secret == result.secret
                hashlock == result.hashlock
                timelock == e.clock + 3600
                cosmos_data ==
                    [htclAddress |-> "cosmos1htclcontractaddress123456789",
                     creator |-> "cosmos1aliceaddress123456789",
                     recipient |-> "cosmos1bobaddress123456789",
                     timelock |-> timelock,
                     hashlock |-> hashlock,
                     amount |-> "1000000",
                     secret |-> secret,
                     destinyNetwork |-> "polygon-amoy",
                     destinyTokenAddress |-> "0x0000000000000000000000000000000000000000",
                     destinyTokenAmount |-> "1000000000000000000",
                     walletAddress |-> GetOrNone(result, "wallet_address"),
                     message |-> GetOrNone(result, "message"),
                     timestamp |-> GetOrNone(result, "timestamp"),
                     method |-> GetOrNone(result, "method")]
            IN [err |-> "none", ret |-> cosmos_data,
                files |-> [e.files EXCEPT !.cosmos = cosmos_data]]

\* cosmos-evm/alice_cosmos_script.py create_htcl_on_cosmos: shared_secret is
\* imported, the mnemonic and the private key are the defaults of os.getenv,
\* every exception of a derivation is caught and the next method is tried
cosmos_evm_create_htcl_on_cosmos(e, token_bytes) ==
    SaveCosmosData(e,
        OrElse(cosmos_evm_generate_deterministic_secret_from_wallet(
                   MNEMONIC_ABANDON, e.clock, FALSE),
               OrElse(cosmos_evm_generate_deterministic_secret_from_private_key(
                          STR_0x \o PRIVATE_KEY_MAIN, e.clock, FALSE),
                      [err |-> "none",
                       ret |-> generate_secret_and_hashlock(token_bytes)])).ret)

\* the secret check of the withdraw steps (bob_cosmos_withdraw.py 58-61,
\* bob_dogecoin_withdraw.py 54-56, alice_cosmos_withdraw.py 38-41):
\* bytes.fromhex of the secret without its 0x marker, and the comparison of
\* the hexdigest with the stored hashlock; ok is whether the step goes on
withdraw_secret_check(secret, hashlock) ==
    LET secret_bytes == FromHex(IF StartsWith(secret, STR_0x)
                                THEN SubSeq(secret, 3, Len(secret)) ELSE secret)
    IN IF secret_bytes.err # "none" THEN [err |-> secret_bytes.err, ok |-> FALSE]
       ELSE LET calculated_hashlock == BytesToHex(Sha256(secret_bytes.bytes))
            IN [err |-> "none", ok |-> ~(calculated_hashlock # hashlock)]

\* the timelock check of the withdraw steps with an exclusive boundary
withdraw_timelock_expired_strict(current_time, timelock) == current_time > timelock

\* the timelock check of the withdraw steps: the step returns None when TRUE
withdraw_timelock_expired(current_time, timelock) == current_time >= timelock

\* evm_data.get('aliceWithdrawn', False)
alice_withdrawn(evm_data) ==
    IF "aliceWithdrawn" \in DOMAIN evm_data THEN evm_data.aliceWithdrawn ELSE FALSE

\* cosmos-evm/bob_cosmos_withdraw.py
bob_withdraw_on_cosmos(e) ==
    LET cosmos_data == e.files.cosmos
        evm_data == e.files.evm
    IN
    IF cosmos_data = None THEN [err |-> "none", ret |-> None, files |-> e.files]
    ELSE IF evm_data = None THEN [err |-> "none", ret |-> None, files |-> e.files]
    ELSE LET secret == cosmos_data.secret
             hashlock == cosmos_data.hashlock
             timelock == cosmos_data.timelock
             checked == withdraw_secret_check(secret, hashlock)
         IN
    IF checked.err # "none" THEN [err |-> checked.err, ret |-> None, files |-> e.files]
    ELSE IF ~checked.ok THEN [err |-> "none", ret |-> None, files |-> e.files]
    ELSE LET current_time == e.clock IN
    IF withdraw_timelock_expired(current_time, timelock)
    THEN [err |-> "none", ret |-> None, files |-> e.files]
    ELSE IF ~alice_withdrawn(evm_data)
    THEN [err |-> "none", ret |-> None, files |-> e.files]
    ELSE LET updated == [bobWithdrawn |-> TRUE,
                         withdrawTxid |-> "bob_withdrawal_tx_123456789abcdef",
                         withdrawTimestamp |-> current_time] @@ cosmos_data
         IN [err |-> "none", ret |-> updated,
             files |-> [e.files EXCEPT !.cosmos = updated]]

BOB_SIGNATURE == <<"b","o","b","_","s","i","g","n","a","t","u","r","e","_","1","2","3","4","5","6","7","8","9","a","b","c","d","e","f">>

\* dogecoin-evm/bob_dogecoin_withdraw.py
bob_withdraw_on_dogecoin(e) ==
    LET dogecoin_data == e.files.dogecoin
        evm_data == e.files.evm
    IN
    IF dogecoin_data = None THEN [err |-> "none", ret |-> None, files |-> e.files]
    ELSE IF evm_data = None THEN [err |-> "none", ret |-> None, files |-> e.files]
    ELSE LET secret == dogecoin_data.secret
             hashlock == dogecoin_data.hashlock
             timelock == dogecoin_data.timelock
             checked == withdraw_secret_check(secret, hashlock)
         IN
    IF checked.err # "none" THEN [err |-> checked.err, ret |-> None, files |-> e.files]
    ELSE IF ~checked.ok THEN [err |-> "none", ret |-> None, files |-> e.files]
    ELSE LET current_time == e.clock IN
    IF withdraw_timelock_expired(current_time, timelock)
    THEN [err |-> "none", ret |-> None, files |-> e.files]
    ELSE IF ~alice_withdrawn(evm_data)
    THEN [err |-> "none", ret |-> None, files |-> e.files]
    ELSE LET s == HTCLScript(dogecoin_data.alicePubkey, dogecoin_data.bobPubkey,
                             timelock, hashlock, dogecoin_data.scriptHex,
                             dogecoin_data.htclAddress)
             is_valid == validate_bob_spending(s, secret, BOB_SIGNATURE,
                                               dogecoin_data.bobPubkey)
         IN IF ~is_valid THEN [err |-> "none", ret |-> None, files |-> e.files]
            ELSE LET updated == [bobWithdrawn |-> TRUE,
                                 withdrawTxid |-> "bob_withdrawal_tx_123456789abcdef",
                                 withdrawTimestamp |-> current_time] @@ dogecoin_data
                 IN [err |-> "none", ret |-> updated,
                     files |-> [e.files EXCEPT !.dogecoin = updated]]

\* evm-cosmos/alice_cosmos_withdraw.py: current_time is the reading of the
\* event loop's clock, asyncio.get_event_loop().time()
alice_withdraw_on_cosmos(e, loop_time) ==
    LET cosmos_data == e.files.cosmos IN
    IF cosmos_data = None THEN [err |-> "none", ret |-> None, files |-> e.files]
    ELSE LET secret == cosmos_data.secret
             hashlock == cosmos_data.hashlock
             timelock == cosmos_data.timelock
             checked == withdraw_secret_check(secret, hashlock)
         IN
    IF checked.err # "none" THEN [err |-> checked.err, ret |-> None, files |-> e.files]
    ELSE IF ~checked.ok THEN [err |-> "none", ret |-> None, files |-> e.files]
    ELSE LET current_time == loop_time IN
    IF current_time >= timelock
    THEN [err |-> "none", ret |-> None, files |-> e.files]
    ELSE LET updated == [aliceWithdrawn |-> TRUE,
                         withdrawTxHash |-> "cosmos1txhash123456789abcdef",
                         withdrawTimestamp |-> current_time] @@ cosmos_data
         IN [err |-> "none", ret |-> updated,
             files |-> [e.files EXCEPT !.cosmos = updated]]

(***************************************************************************)
(* The values the calls are made with.                                     *)
(***************************************************************************)
Signatures ==
    {<<>>, VALID_SIGNATURE, Rep("a", MinSignatureLength - 1),
     Rep("a", MinSignatureLength), Rep("a", MinSignatureLength + 1)}

Pubkeys == {ALICE_PUBKEY, BOB_PUBKEY, WRONG_PUBKEY}

\* a hex public key argument of 256 bytes: its push would need a length of 256
OVERSIZED_PUBKEY == Rep("a", 512)

Hashlocks == {Hash160Hex(TEST_SECRET), Hash160Hex(INTEGRATION_SECRET)}

CreateHashlocks ==
    {<<>>, INVALID_HASH, Hash160Hex(INTEGRATION_SECRET), STR_0x \o Hash160Hex(INTEGRATION_SECRET),
     Rep("z", 40)}

Blocks == 0..MaxBlock

\* descriptors built with the dataclass constructor
Scripts ==
    {HTCLScript(ALICE_PUBKEY, BOB_PUBKEY, t, h, SCRIPT_HEX, P2SH_ADDRESS) :
        t \in 1..MaxTimelock, h \in Hashlocks}

Utxo(a) == [txid |-> TEST_TXID, vout |-> 0, amount |-> a]

UtxoLists ==
    UNION {[1..n -> {Utxo(a) : a \in 0..MaxUtxoAmount}] : n \in 0..MaxUtxos}

\* the descriptor s with a program of 66 bytes and the address derived from it
SAMPLE_P2SH_ADDRESS == script_to_p2sh_address(SAMPLE_SCRIPT_HEX)

SampleScript(s) ==
    HTCLScript(s.alice_pubkey, s.bob_pubkey, s.timelock, s.hashlock,
               SAMPLE_SCRIPT_HEX, SAMPLE_P2SH_ADDRESS)

\* descriptors validate_script is called with: one well-formed, the others
\* differing from it in one field
ScriptShapes ==
    LET good == HTCLScript(ALICE_PUBKEY, BOB_PUBKEY, 1, Hash160Hex(TEST_SECRET),
                           SAMPLE_SCRIPT_HEX, SAMPLE_P2SH_ADDRESS)
    IN {good}
       \cup {[good EXCEPT !.script_hex = x] :
                x \in {<<>>, SCRIPT_HEX, INVALID_HASH,
                       Rep("a", 2 * MinScriptBytes - 2), Rep("a", 2 * MinScriptBytes - 1),
                       Rep("a", 2 * MinScriptBytes), Rep("a", 2 * MaxScriptBytes),
                       Rep("a", 2 * MaxScriptBytes + 2)}}
       \cup {[good EXCEPT !.p2sh_address = x] : x \in {<<>>, DOGE_ADDRESS}}
       \cup {[good EXCEPT !.hashlock = x] :
                x \in {<<>>, INVALID_HASH, STR_0x \o Hash160Hex(TEST_SECRET)}}
       \cup {[good EXCEPT !.alice_pubkey = WRONG_PUBKEY],
             [good EXCEPT !.bob_pubkey = WRONG_PUBKEY]}

\* records of the shapes the builders assemble, built with the dataclass
\* constructor: the claim path carries '<secret> <script_hex>', the refund
\* path '<timelock> <script_hex>'
WithdrawalRecord(script_sig) ==
    HTCLTransaction(<<>>, 1,
        << [txid |-> PREVIOUS_TXID, vout |-> 0, script_sig |-> script_sig,
            sequence |-> SEQUENCE_FINAL] >>,
        << [value |-> 1,
            script_pubkey |-> STR_P2PKH_PRE \o DOGE_ADDRESS \o STR_P2PKH_POST,
            address |-> DOGE_ADDRESS] >>, 0)

ClaimRecord(s, secret) == WithdrawalRecord(secret \o <<" ">> \o s.script_hex)

RefundRecord(s) == WithdrawalRecord(IntToStr(s.timelock) \o <<" ">> \o s.script_hex)

NoInputsRecord == HTCLTransaction(<<>>, 1, <<>>, <<>>, 0)

\* the records create_funding_transaction returns for s
FundingRecords(s) ==
    {create_funding_transaction(NewBuilder("mainnet"), s, amount, 0,
                                <<Utxo(MaxUtxoAmount)>>, DOGE_ADDRESS).ret :
        amount \in 0..MaxUtxoAmount}

WithdrawalRecords(s) ==
    {ClaimRecord(s, secret) : secret \in Secrets}
    \cup {RefundRecord(s), NoInputsRecord} \cup FundingRecords(s)

\* the files of a directory before any script has run
NoFiles == [evm |-> None, dogecoin |-> None, cosmos |-> None, transaction_data |-> None]

\* readings of the clock: the start, the second second and the last second
\* of each hour
Clocks == {T0 + 3600 * h + d : h \in 0..MaxHours, d \in {0, 1, 3599}}

\* hashlib.sha256(secret_bytes).hexdigest() of FLOW_SECRET, and of another secret
FLOW_HASHLOCK == BytesToHex(Sha256(FromHex(SubSeq(FLOW_SECRET, 3, Len(FLOW_SECRET))).bytes))
OTHER_HASHLOCK ==
    BytesToHex(Sha256(HmacSha256(Encode(PRIVATE_KEY_TEST), SecretMessage(T0 + 3600))))

\* hashlock texts an EVM-side record may carry: none, 64 hex characters,
\* the same with the 0x marker, and a 40-character digest
EvmHashlocks ==
    {<<>>, FLOW_HASHLOCK, STR_0x \o FLOW_HASHLOCK, Hash160Hex(FLOW_SECRET)}

\* evm_htcl_data.json as the steps read it; the script that writes it is
\* outside src
EvmDogecoinRecords ==
    {[hashlockDogecoin |-> h, timelock |-> T0 + 3600,
      aliceAddress |-> "0xAlice123456789012345678901234567890123456",
      bobAddress |-> "0xBob123456789012345678901234567890123456",
      amount |-> "1000000000000000000", secret |-> FLOW_SECRET,
      htclAddress |-> "0xHTCLContract123456789012345678901234567890"] :
        h \in EvmHashlocks}

EvmCosmosRecords ==
    {[hashlockCosmos |-> h, timelock |-> t,
      aliceAddress |-> "0xAlice123456789012345678901234567890123456",
      bobAddress |-> "0xBob123456789012345678901234567890123456",
      amount |-> "1000000000000000000", secret |-> FLOW_SECRET,
      htclAddress |-> "0xHTCLContract123456789012345678901234567890"] :
        h \in EvmHashlocks, t \in {T0 + 3600, T0 + 7200}}

\* dogecoin_htcl_data.json with the fields create_htcl_on_dogecoin writes
DogecoinRecord(timelock, hashlock) ==
    [htclAddress |-> SAMPLE_P2SH_ADDRESS, scriptHex |-> SAMPLE_SCRIPT_HEX,
     creator |-> "0xBob123456789012345678901234567890123456",
     recipient |-> "0xAlice123456789012345678901234567890123456",
     timelock |-> timelock, hashlock |-> hashlock, amount |-> 500000,
     secret |-> FLOW_SECRET,
     evmHtclAddress |-> "0xHTCLContract123456789012345678901234567890",
     fundingTxid |-> "fedcba0987654321fedcba0987654321fedcba0987654321fedcba0987654321",
     alicePubkey |-> ALICE_PUBKEY, bobPubkey |-> BOB_PUBKEY]

\* records created at T0 and 1000 blocks before T0 (timelock a block height,
\* as the create step stores it), and one whose timelock is a time in seconds
DogecoinRecords ==
    {DogecoinRecord(timelock, h) :
        timelock \in {get_current_block_height(T0) + 1000,
                      get_current_block_height(T0 - 60000) + 1000,
                      T0 + 3600},
        h \in {FLOW_HASHLOCK, OTHER_HASHLOCK, Hash160Hex(FLOW_SECRET)}}

Dirs == {"evm-dogecoin", "evm-cosmos", "cosmos-evm", "dogecoin-evm"}

FilesOf(cwd) ==
    CASE cwd = "evm-dogecoin" ->
           {[NoFiles EXCEPT !.evm = x, !.dogecoin = y] :
               x \in {None} \cup EvmDogecoinRecords, y \in {None} \cup DogecoinRecords}
      [] cwd = "evm-cosmos" ->
           {[NoFiles EXCEPT !.evm = x] : x \in {None} \cup EvmCosmosRecords}
      [] OTHER -> {NoFiles}

\* the keys the derivations are called with
Mnemonics == {MNEMONIC_TEST, MNEMONIC_ABANDON}

PrivateKeys == {PRIVATE_KEY_MAIN, STR_0x \o PRIVATE_KEY_MAIN, PRIVATE_KEY_TEST}

\* no script has run yet
NotRun == [step |-> "none"]

\* a digest whose text begins with zeros
ZERO_LED_HASHLOCK == <<"0", "0">> \o SubSeq(FLOW_HASHLOCK, 3, Len(FLOW_HASHLOCK))

\* texts the conversions are called with: raw hex, the same with the marker,
\* with the marker twice, and texts that are not hex
HashlockTexts ==
    LET raw == {FLOW_HASHLOCK, ZERO_LED_HASHLOCK, INVALID_HASH}
    IN raw \cup {STR_0x \o h : h \in raw} \cup {STR_0x \o STR_0x \o FLOW_HASHLOCK}

\* programs in hex text the address derivation is called with, and a text
\* that is not hex
ProgramTexts == {<<>>, <<"0", "0">>, SCRIPT_HEX, SAMPLE_SCRIPT_HEX, INVALID_HASH}

\* the record of TestHTCLTransactionSerializer.setUp
SERIALIZER_TX ==
    HTCLTransaction(TEST_TXID, 1,
        << [txid |-> <<"i","n","p","u","t","_","t","x","i","d">>, vout |-> 0] >>,
        << [value |-> 1000000,
            address |-> <<"t","e","s","t","_","a","d","d","r","e","s","s">>] >>, 0)

\* a record with script_sig and witness set, texts with a quote, a backslash
\* and a newline in them, a negative value and a locktime
SIGNED_TX ==
    [HTCLTransaction(<<>>, 2,
        << [txid |-> PREVIOUS_TXID, vout |-> 1, script_sig |-> <<"a", QUOTE, "b">>,
            sequence |-> SEQUENCE_FINAL] >>,
        << [value |-> 0 - 1, script_pubkey |-> <<BACKSLASH, "n", NEWLINE>>,
            address |-> DOGE_ADDRESS],
           [value |-> 0, address |-> <<>>] >>, 500)
     EXCEPT !.script_sig = Some(<<QUOTE, QUOTE, BACKSLASH>>),
            !.witness = Some(<<VALID_SIGNATURE, <<>>, <<" ", ",", "]">>>>)]

\* records the serializer is called with
JsonRecords(s) ==
    {SERIALIZER_TX, SIGNED_TX, NoInputsRecord,
     [NoInputsRecord EXCEPT !.witness = Some(<<>>)],
     ClaimRecord(s, TEST_SECRET), RefundRecord(s)}
    \cup FundingRecords(s)

\* the bytes secrets.token_bytes(32) may return
TokenBytes ==
    {FromHex(SubSeq(FLOW_SECRET, 3, Len(FLOW_SECRET))).bytes,
     HmacSha256(KEY_TEXT_TEST, MESSAGE_HOUR_1)}

\* readings of the event loop's clock, which counts from an arbitrary start
LoopTimes == {0, 86400}

\* evm_htcl_data.json as Bob's withdraw steps read it: without the
\* aliceWithdrawn key, and with it; the scripts that write it are outside src
EvmWithdrawRecords ==
    LET evm_data == [htclAddress |-> "0xHTCLContract123456789012345678901234567890",
                     hashlock |-> STR_0x \o FLOW_HASHLOCK,
                     secret |-> FLOW_SECRET]
    IN {evm_data} \cup {[aliceWithdrawn |-> b] @@ evm_data : b \in BOOLEAN}

\* cosmos_htcl_data.json with the fields the create step of cosmos-evm writes
CosmosRecord(timelock, hashlock) ==
    [htclAddress |-> "cosmos1htclcontractaddress123456789",
     creator |-> "cosmos1aliceaddress123456789",
     recipient |-> "cosmos1bobaddress123456789",
     timelock |-> timelock, hashlock |-> hashlock, amount |-> "1000000",
     secret |-> FLOW_SECRET, destinyNetwork |-> "polygon-amoy",
     destinyTokenAddress |-> "0x0000000000000000000000000000000000000000",
     destinyTokenAmount |-> "1000000000000000000",
     walletAddress |-> None, message |-> None, timestamp |-> None,
     method |-> Some("random")]

\* records with the hashlock in the 0x form, in the form the contract is
\* instantiated with (without 0x), and with the hashlock of another secret
CosmosRecords ==
    {CosmosRecord(T0 + 3600, h) :
        h \in {STR_0x \o FLOW_HASHLOCK, FLOW_HASHLOCK, OTHER_HASHLOCK}}

\* dogecoin_htcl_data.json with the fields the create step of dogecoin-evm writes
DogecoinEvmRecord(timelock, hashlock) ==
    [htclAddress |-> SAMPLE_P2SH_ADDRESS, scriptHex |-> SAMPLE_SCRIPT_HEX,
     creator |-> "alice_dogecoin_address", recipient |-> "bob_dogecoin_address",
     timelock |-> timelock, hashlock |-> hashlock,
     hashlockEVM |-> STR_0x \o FLOW_HASHLOCK, amount |-> 500000,
     secret |-> FLOW_SECRET, fundingTxid |-> "alice_funding_tx_123456789abcdef",
     alicePubkey |-> ALICE_PUBKEY, bobPubkey |-> BOB_PUBKEY]

\* the timelock a block height, as the create step stores it, and a time in
\* seconds; the hashlock a SHA-256 digest and a HASH160 digest
DogecoinEvmRecords ==
    {DogecoinEvmRecord(timelock, h) :
        timelock \in {get_current_block_height(T0) + 1000, T0 + 3600},
        h \in {FLOW_HASHLOCK, Hash160Hex(FLOW_SECRET)}}

WithdrawDirs == {"cosmos-evm", "dogecoin-evm", "evm-cosmos"}

WithdrawFilesOf(cwd) ==
    CASE cwd = "cosmos-evm" ->
           {[NoFiles EXCEPT !.cosmos = x, !.evm = y] :
               x \in {None} \cup CosmosRecords, y \in {None} \cup EvmWithdrawRecords}
      [] cwd = "dogecoin-evm" ->
           {[NoFiles EXCEPT !.dogecoin = x, !.evm = y] :
               x \in {None} \cup DogecoinEvmRecords, y \in {None} \cup EvmWithdrawRecords}
      [] OTHER -> FilesOf(cwd)

Idle == [op |-> "none"]

(***************************************************************************)
(* The state machine: a descriptor, a builder, and one call at a time.     *)
(* As in the tests, a descriptor is set up (built, or returned by create)  *)
(* and then one call is made on it; a create that raises ends its caller.  *)
(* A call's result does not depend on the calls before it, the descriptor  *)
(* apart.                                                                  *)
(***************************************************************************)
SetUp == last.op = "none" \/ (last.op = "create" /\ last.err = "none")

Init ==
    /\ script \in Scripts
    /\ builder = NewBuilder("mainnet")
    /\ last = Idle
    /\ env = [cwd |-> "dogecoin", clock |-> T0, files |-> NoFiles]
    /\ flow = NotRun

Create ==
    /\ SetUp
    /\ \E a \in {<<>>, ALICE_PUBKEY, OVERSIZED_PUBKEY}, b \in {<<>>, BOB_PUBKEY},
       t \in (0 - 1)..MaxTimelock, h \in CreateHashlocks :
        LET r == create(a, b, t, h)
        IN /\ last' = [op |-> "create", alice_pubkey |-> a, bob_pubkey |-> b,
                       timelock |-> t, hashlock |-> h,
                       err |-> r.err, ret |-> r.ret, compiled |-> r.compiled]
           /\ script' = IF r.err = "none" THEN r.ret ELSE script
           /\ UNCHANGED <<builder, env, flow>>

ValidateBobSpending ==
    /\ SetUp
    /\ \E secret \in Secrets, signature \in Signatures, pubkey \in Pubkeys :
        /\ last' = [op |-> "validate_bob_spending", secret |-> secret,
                    signature |-> signature, pubkey |-> pubkey,
                    ret |-> validate_bob_spending(script, secret, signature, pubkey)]
        /\ UNCHANGED <<script, builder, env, flow>>

ValidateAliceSpending ==
    /\ SetUp
    /\ \E signature \in Signatures, pubkey \in Pubkeys, current_block \in Blocks :
        /\ last' = [op |-> "validate_alice_spending", signature |-> signature,
                    pubkey |-> pubkey, current_block |-> current_block,
                    ret |-> validate_alice_spending(script, signature, pubkey, current_block)]
        /\ UNCHANGED <<script, builder, env, flow>>

CreateFundingTransaction ==
    /\ SetUp
    /\ \E amount \in 0..MaxAmount, fee \in 0..MaxFee, input_utxos \in UtxoLists,
       change_address \in {DOGE_ADDRESS, script.p2sh_address} :
        LET r == create_funding_transaction(builder, script, amount, fee,
                                            input_utxos, change_address)
        IN /\ last' = [op |-> "create_funding_transaction", amount |-> amount,
                       fee |-> fee, input_utxos |-> input_utxos,
                       change_address |-> change_address,
                       err |-> r.err, ret |-> r.ret]
           /\ UNCHANGED <<script, builder, env, flow>>

CreateBobWithdrawalTransaction ==
    /\ SetUp
    /\ \E secret \in Secrets, amount \in 0..MaxAmount, fee \in 0..MaxFee :
        LET r == create_bob_withdrawal_transaction(builder, script, secret, amount,
                                                   fee, <<>>, DOGE_ADDRESS)
        IN /\ last' = [op |-> "create_bob_withdrawal_transaction", secret |-> secret,
                       amount |-> amount, fee |-> fee, bob_address |-> DOGE_ADDRESS,
                       err |-> r.err, ret |-> r.ret]
           /\ UNCHANGED <<script, builder, env, flow>>

CreateAliceWithdrawalTransaction ==
    /\ SetUp
    /\ \E amount \in 0..MaxAmount, fee \in 0..MaxFee, current_block \in Blocks :
        LET r == create_alice_withdrawal_transaction(builder, script, amount, fee,
                                                     <<>>, DOGE_ADDRESS, current_block)
        IN /\ last' = [op |-> "create_alice_withdrawal_transaction",
                       amount |-> amount, fee |-> fee,
                       alice_address |-> DOGE_ADDRESS, current_block |-> current_block,
                       err |-> r.err, ret |-> r.ret]
           /\ UNCHANGED <<script, builder, env, flow>>

\* the static method called on a program text: bytes.fromhex raises
\* ValueError on a text that is not hex
ScriptToP2shAddress ==
    /\ SetUp
    /\ \E script_hex \in ProgramTexts \cup {script.script_hex} :
        /\ last' = [op |-> "_script_to_p2sh_address", script_hex |-> script_hex,
                    err |-> FromHex(script_hex).err,
                    ret |-> IF FromHex(script_hex).err = "none"
                            THEN script_to_p2sh_address(script_hex) ELSE None]
        /\ UNCHANGED <<script, builder, env, flow>>

ValidateScript ==
    /\ SetUp
    /\ \E s \in ScriptShapes \cup {script} :
        /\ last' = [op |-> "validate_script", script |-> s,
                    ret |-> validate_script(s)]
        /\ UNCHANGED <<script, builder, env, flow>>

ValidateFundingTransaction ==
    /\ SetUp
    /\ \E s \in {script, SampleScript(script)} :
        \E tx \in FundingRecords(s) \cup FundingRecords(script)
                  \cup {NoInputsRecord, RefundRecord(s)} :
            /\ last' = [op |-> "validate_funding_transaction", tx |-> tx,
                        script |-> s, ret |-> validate_funding_transaction(tx, s)]
            /\ UNCHANGED <<script, builder, env, flow>>

ValidateBobWithdrawalTransaction ==
    /\ SetUp
    /\ \E s \in {script, SampleScript(script)}, secret \in Secrets :
        \E tx \in WithdrawalRecords(s) :
            /\ last' = [op |-> "validate_bob_withdrawal_transaction", tx |-> tx,
                        script |-> s, secret |-> secret,
                        ret |-> validate_bob_withdrawal_transaction(tx, s, secret)]
            /\ UNCHANGED <<script, builder, env, flow>>

ValidateAliceWithdrawalTransaction ==
    /\ SetUp
    /\ \E s \in {script, SampleScript(script)}, current_block \in Blocks :
        \E tx \in WithdrawalRecords(s) :
            /\ last' = [op |-> "validate_alice_withdrawal_transaction", tx |-> tx,
                        script |-> s, current_block |-> current_block,
                        ret |-> validate_alice_withdrawal_transaction(tx, s, current_block)]
            /\ UNCHANGED <<script, builder, env, flow>>

\* HTCLTransactionSerializer.to_json called on a record
ToJson ==
    /\ SetUp
    /\ \E tx \in JsonRecords(script) :
        /\ last' = [op |-> "to_json", tx |-> tx, ret |-> to_json(tx)]
        /\ UNCHANGED <<script, builder, env, flow>>

\* HTCLTransactionSerializer.from_json called on the text to_json returned
FromJson ==
    /\ last.op = "to_json"
    /\ LET r == from_json(last.ret)
       IN last' = [op |-> "from_json", json_str |-> last.ret, tx |-> last.tx,
                   err |-> r.err, ret |-> r.ret]
    /\ UNCHANGED <<script, builder, env, flow>>

Next ==
    \/ Create
    \/ ValidateBobSpending
    \/ ValidateAliceSpending
    \/ CreateFundingTransaction
    \/ CreateBobWithdrawalTransaction
    \/ CreateAliceWithdrawalTransaction
    \/ ScriptToP2shAddress
    \/ ValidateScript
    \/ ValidateFundingTransaction
    \/ ValidateBobWithdrawalTransaction
    \/ ValidateAliceWithdrawalTransaction
    \/ ToJson
    \/ FromJson

Spec == Init /\ [][Next]_vars

(***************************************************************************)
(* The flows: a directory with its files, the clock, and one script run    *)
(* at a time.  flow holds the last run: the step, the environment it       *)
(* started in, its arguments and its result.                               *)
(***************************************************************************)
FlowInit ==
    /\ script = HTCLScript(ALICE_PUBKEY, BOB_PUBKEY, 1, Hash160Hex(TEST_SECRET),
                           SCRIPT_HEX, P2SH_ADDRESS)
    /\ builder = NewBuilder("mainnet")
    /\ last = Idle
    /\ flow = NotRun
    /\ \E cwd \in Dirs, clock \in Clocks :
          \E files \in FilesOf(cwd) :
              env = [cwd |-> cwd, clock |-> clock, files |-> files]

\* time passes
Tick ==
    /\ \E t \in Clocks : t > env.clock /\ env' = [env EXCEPT !.clock = t]
    /\ UNCHANGED <<script, builder, last, flow>>

Run(step, r) ==
    /\ flow' = [step |-> step, env |-> env, err |-> r.err, ret |-> r.ret,
                files |-> r.files]
    /\ env' = [env EXCEPT !.files = r.files]
    /\ UNCHANGED <<script, builder, last>>

CreateHtclOnDogecoin ==
    /\ env.cwd = "evm-dogecoin"
    /\ Run("create_htcl_on_dogecoin", create_htcl_on_dogecoin(env))

AliceWithdrawOnDogecoin ==
    /\ env.cwd = "evm-dogecoin"
    /\ Run("alice_withdraw_on_dogecoin", alice_withdraw_on_dogecoin(env))

CreateHtclOnCosmos ==
    /\ env.cwd = "evm-cosmos"
    /\ Run("create_htcl_on_cosmos", create_htcl_on_cosmos(env))

TestCosmosEvmFlow ==
    /\ env.cwd = "cosmos-evm"
    /\ Run("test_cosmos_evm_flow", test_cosmos_evm_flow(env))

\* a call of a derivation: flow keeps the call before it as prev
Derive(fn, key, as_main, r) ==
    /\ flow' = [step |-> "derive", env |-> env, fn |-> fn, key |-> key,
                as_main |-> as_main, err |-> r.err, ret |-> r.ret,
                prev |-> IF flow.step = "derive"
                         THEN [k \in DOMAIN flow \ {"prev"} |-> flow[k]]
                         ELSE None]
    /\ UNCHANGED <<script, builder, last, env>>

\* dogecoin-evm/test_flow.py and the __main__ block of its shared_secret.py
\* call the derivation with a mnemonic
DogecoinEvmDerive ==
    /\ env.cwd = "dogecoin-evm"
    /\ \/ \E mnemonic \in Mnemonics :
             Derive("generate_deterministic_secret_from_wallet", mnemonic, FALSE,
                    dogecoin_evm_generate_deterministic_secret_from_wallet(mnemonic, env.clock))
       \/ \E private_key \in PrivateKeys :
             Derive("generate_deterministic_secret_from_private_key", private_key, FALSE,
                    dogecoin_evm_generate_deterministic_secret_from_private_key(
                        private_key, env.clock))

\* cosmos-evm/shared_secret.py run as a script calls the derivations with the
\* values of its __main__ block; alice_cosmos_script.py and test_flow.py
\* import it and call them with their own
CosmosEvmDerive ==
    /\ env.cwd = "cosmos-evm"
    /\ \E as_main \in BOOLEAN :
          \/ \E mnemonic \in (IF as_main THEN {MNEMONIC_ABANDON} ELSE Mnemonics) :
                Derive("generate_deterministic_secret_from_wallet", mnemonic, as_main,
                       cosmos_evm_generate_deterministic_secret_from_wallet(
                           mnemonic, env.clock, as_main))
          \/ \E private_key \in (IF as_main THEN {STR_0x \o PRIVATE_KEY_MAIN}
                                            ELSE PrivateKeys) :
                Derive("generate_deterministic_secret_from_private_key", private_key,
                       as_main,
                       cosmos_evm_generate_deterministic_secret_from_private_key(
                           private_key, env.clock, as_main))

\* a call of a hashlock conversion of the directory's shared_secret.py, on a
\* text of HashlockTexts or on what the call before it returned
ConvertHashlock ==
    /\ env.cwd \in {"cosmos-evm", "dogecoin-evm"}
    /\ \E to_evm \in BOOLEAN,
          arg \in HashlockTexts \cup (IF flow.step = "convert" THEN {flow.ret} ELSE {}) :
          flow' = [step |-> "convert", to_evm |-> to_evm, arg |-> arg,
                   ret |-> IF env.cwd = "cosmos-evm"
                           THEN IF to_evm THEN cosmos_to_evm_hashlock(arg)
                                ELSE evm_to_cosmos_hashlock(arg)
                           ELSE IF to_evm THEN dogecoin_to_evm_hashlock(arg)
                                ELSE evm_to_dogecoin_hashlock(arg),
                   prev |-> IF flow.step = "convert"
                            THEN [k \in DOMAIN flow \ {"prev"} |-> flow[k]]
                            ELSE None]
    /\ UNCHANGED <<script, builder, last, env>>

FlowNext ==
    \/ Tick
    \/ DogecoinEvmDerive
    \/ CosmosEvmDerive
    \/ ConvertHashlock
    \/ CreateHtclOnDogecoin
    \/ AliceWithdrawOnDogecoin
    \/ CreateHtclOnCosmos
    \/ TestCosmosEvmFlow

FlowSpec == FlowInit /\ [][FlowNext]_vars

(***************************************************************************)
(* The withdraw steps: the directory of a flow with its record files, the  *)
(* clock, and one script run at a time; flow holds the last run with the   *)
(* environment it started in and the files it left.                        *)
(***************************************************************************)
WithdrawInit ==
    /\ script = HTCLScript(ALICE_PUBKEY, BOB_PUBKEY, 1, Hash160Hex(TEST_SECRET),
                           SCRIPT_HEX, P2SH_ADDRESS)
    /\ builder = NewBuilder("mainnet")
    /\ last = Idle
    /\ flow = NotRun
    /\ \E cwd \in WithdrawDirs, clock \in Clocks :
          \E files \in WithdrawFilesOf(cwd) :
              env = [cwd |-> cwd, clock |-> clock, files |-> files]

CosmosEvmCreateHtclOnCosmos ==
    /\ env.cwd = "cosmos-evm"
    /\ \E token_bytes \in TokenBytes :
          Run("cosmos_evm_create_htcl_on_cosmos",
              cosmos_evm_create_htcl_on_cosmos(env, token_bytes))

BobWithdrawOnCosmos ==
    /\ env.cwd = "cosmos-evm"
    /\ Run("bob_withdraw_on_cosmos", bob_withdraw_on_cosmos(env))

BobWithdrawOnDogecoin ==
    /\ env.cwd = "dogecoin-evm"
    /\ Run("bob_withdraw_on_dogecoin", bob_withdraw_on_dogecoin(env))

AliceWithdrawOnCosmos ==
    /\ env.cwd = "evm-cosmos"
    /\ \E loop_time \in LoopTimes :
          Run("alice_withdraw_on_cosmos", alice_withdraw_on_cosmos(env, loop_time))

WithdrawNext ==
    \/ Tick
    \/ CreateHtclOnCosmos
    \/ CosmosEvmCreateHtclOnCosmos
    \/ BobWithdrawOnCosmos
    \/ BobWithdrawOnDogecoin
    \/ AliceWithdrawOnCosmos

WithdrawSpec == WithdrawInit /\ [][WithdrawNext]_vars

(***************************************************************************)
(* Properties.                                                             *)
(***************************************************************************)
ValidCreateArgs ==
    /\ last.op = "create"
    /\ last.alice_pubkey # <<>> /\ FromHex(last.alice_pubkey).err = "none"
    /\ last.bob_pubkey # <<>> /\ FromHex(last.bob_pubkey).err = "none"
    /\ last.timelock > 0
    /\ Len(last.hashlock) = 40 /\ FromHex(last.hashlock).err = "none"

C4_CreateValidSucceeds ==
    ValidCreateArgs =>
        /\ last.err = "none"
        /\ last.ret.alice_pubkey = last.alice_pubkey
        /\ last.ret.bob_pubkey = last.bob_pubkey
        /\ last.ret.timelock = last.timelock
        /\ last.ret.hashlock = last.hashlock
        /\ last.ret.script_hex # <<>>
        /\ StartsWith(last.ret.p2sh_address, <<"3">>)

\* C5: with the placeholder signature 'valid_signature', validate_bob_spending
\* returns True when the secret hashes to the hashlock and the pubkey is Bob's,
\* and validate_alice_spending returns True when the pubkey is Alice's and
\* current_block > timelock.
C5_PlaceholderSignatureAccepted ==
    /\ (/\ last.op = "validate_bob_spending"
        /\ last.signature = VALID_SIGNATURE
        /\ Hash160Hex(last.secret) = script.hashlock
        /\ last.pubkey = script.bob_pubkey) => last.ret = TRUE
    /\ (/\ last.op = "validate_alice_spending"
        /\ last.signature = VALID_SIGNATURE
        /\ last.pubkey = script.alice_pubkey
        /\ last.current_block > script.timelock) => last.ret = TRUE

\* C6: create_bob_withdrawal_transaction returns a record exactly when the
\* secret's digest equals script.hashlock; the record then has one input whose
\* script_sig carries the secret and one output of amount - fee to bob_address;
\* for any other secret it raises and returns no record.
C6_BobWithdrawalBuilt ==
    last.op = "create_bob_withdrawal_transaction" =>
        IF Hash160Hex(last.secret) = script.hashlock
        THEN /\ last.err = "none"
             /\ Len(last.ret.inputs) = 1
             /\ StartsWith(last.ret.inputs[1].script_sig, last.secret \o <<" ">>)
             /\ Len(last.ret.outputs) = 1
             /\ last.ret.outputs[1].value = last.amount - last.fee
             /\ last.ret.outputs[1].address = last.bob_address
        ELSE last.err = "ValueError" /\ last.ret = None

\* C7: create_alice_withdrawal_transaction returns a record exactly when
\* current_block >= script.timelock; the record then has one input and one
\* output of amount - fee to alice_address; for every current_block <
\* script.timelock it raises and returns no record.
C7_AliceWithdrawalBuilt ==
    last.op = "create_alice_withdrawal_transaction" =>
        IF last.current_block >= script.timelock
        THEN /\ last.err = "none"
             /\ Len(last.ret.inputs) = 1
             /\ Len(last.ret.outputs) = 1
             /\ last.ret.outputs[1].value = last.amount - last.fee
             /\ last.ret.outputs[1].address = last.alice_address
        ELSE last.err = "ValueError" /\ last.ret = None

\* C8: every record create_funding_transaction returns has the HTCL output
\* (value amount, to script.p2sh_address) first and no other HTCL output, one
\* input per UTXO, and a second (change) output exactly when input_total -
\* amount - fee > 0, of exactly that value; the output values plus the fee sum
\* to input_total.
C8_FundingRecordShape ==
    (last.op = "create_funding_transaction" /\ last.err = "none") =>
        LET tx == last.ret
            total == SumAmounts(last.input_utxos)
            change == total - last.amount - last.fee
            htcl_pubkey == STR_P2SH_PRE \o script.p2sh_address \o STR_P2SH_POST
        IN /\ Len(tx.inputs) = Len(last.input_utxos)
           /\ \A i \in 1..Len(tx.inputs) :
                 /\ tx.inputs[i].txid = last.input_utxos[i].txid
                 /\ tx.inputs[i].vout = last.input_utxos[i].vout
           /\ Len(tx.outputs) \in {1, 2}
           /\ tx.outputs[1].value = last.amount
           /\ tx.outputs[1].address = script.p2sh_address
           /\ {i \in 1..Len(tx.outputs) : tx.outputs[i].script_pubkey = htcl_pubkey} = {1}
           /\ (Len(tx.outputs) = 2) <=> (change > 0)
           /\ Len(tx.outputs) = 2 =>
                 /\ tx.outputs[2].value = change
                 /\ tx.outputs[2].address = last.change_address
                 /\ tx.outputs[1].value + tx.outputs[2].value + last.fee = total
           /\ Len(tx.outputs) = 1 => tx.outputs[1].value + last.fee = total

C8_Witness ==
    /\ last.op = "create_funding_transaction"
    /\ last.err = "none"
    /\ Len(last.input_utxos) = 2
    /\ Len(last.ret.outputs) = 2

\* C9: create_funding_transaction raises the insufficient-funds error and
\* returns no record whenever the sum of the input UTXO amounts is less than
\* amount + fee.
C9_InsufficientFundsRejected ==
    (/\ last.op = "create_funding_transaction"
     /\ SumAmounts(last.input_utxos) < last.amount + last.fee)
    => last.err = "ValueError" /\ last.ret = None

C9_Witness ==
    /\ last.op = "create_funding_transaction"
    /\ last.input_utxos # <<>>
    /\ SumAmounts(last.input_utxos) >= last.amount
    /\ SumAmounts(last.input_utxos) < last.amount + last.fee
    /\ last.err = "ValueError"

\* C10: the compiled program of a valid parameter set is exactly DUP, HASH160,
\* push(hashlock), EQUALVERIFY, DROP, push(bob_pubkey), CHECKSIG, IF, ELSE,
\* push(timelock), CHECKLOCKTIMEVERIFY, DROP, push(alice_pubkey), CHECKSIG,
\* ENDIF, each opcode one byte and each push a one-byte length followed by the
\* operand's raw bytes.
C10_CompiledProgramExact ==
    ValidCreateArgs =>
        /\ last.err = "none"
        /\ FromHex(last.ret.script_hex).err = "none"
        /\ LET p == FromHex(last.ret.script_hex).bytes
               hl == FromHex(last.hashlock).bytes
               bk == FromHex(last.bob_pubkey).bytes
               ak == FromHex(last.alice_pubkey).bytes
               pre == <<118, 169, Len(hl)>> \o hl \o <<136, 117, Len(bk)>> \o bk
                         \o <<172, 99, 103>>
               post == <<177, 117, Len(ak)>> \o ak \o <<172, 104>>
           IN /\ Len(p) > Len(pre) + 1 + Len(post)
              /\ SubSeq(p, 1, Len(pre)) = pre
              /\ Len(p) = Len(pre) + 1 + p[Len(pre) + 1] + Len(post)
              /\ SubSeq(p, Len(p) - Len(post) + 1, Len(p)) = post

\* C11: compilation is deterministic: for every valid parameter set a call of
\* create yields a descriptor, and a second, independent call with the same
\* four parameters yields the same script_hex and the same p2sh_address.
C11_CompilationDeterministic ==
    ValidCreateArgs =>
        LET again == create(last.alice_pubkey, last.bob_pubkey,
                            last.timelock, last.hashlock)
        IN /\ last.err = "none"
           /\ again.err = "none"
           /\ last.ret.script_hex = again.ret.script_hex
           /\ last.ret.p2sh_address = again.ret.p2sh_address

\* C12: a create whose parameters pass the parameter checks and whose public
\* key operand is longer than 255 bytes is rejected by the compiler with a
\* program-too-large error; a push that is emitted has a length prefix equal
\* to the number of operand bytes after it.
C12_OversizedPushRejected ==
    (/\ last.op = "create"
     /\ last.compiled
     /\ FromHex(last.alice_pubkey).err = "none"
     /\ Len(FromHex(last.alice_pubkey).bytes) > 255)
    => last.err = "ProgramTooLarge"

\* C13: validate_bob_withdrawal_transaction returns True for every record whose
\* first input carries '<secret> <script_hex>' when the secret's digest equals
\* script.hashlock, and False when the record has no inputs, when the secret
\* is not carried by the first input, or when the digest differs.
C13_BobWithdrawalRecordValidated ==
    last.op = "validate_bob_withdrawal_transaction" =>
        /\ (/\ last.tx = ClaimRecord(last.script, last.secret)
            /\ Hash160Hex(last.secret) = last.script.hashlock) => last.ret = TRUE
        /\ (\/ last.tx.inputs = <<>>
            \/ (last.tx.inputs # <<>>
                /\ ~Contains(last.tx.inputs[1].script_sig, last.secret))
            \/ Hash160Hex(last.secret) # last.script.hashlock) => last.ret = FALSE

\* C14: validate_alice_withdrawal_transaction returns True exactly when the
\* first input witness is the refund witness '<timelock> <script_hex>' of the
\* descriptor and current_block >= script.timelock; in particular False for a
\* record with no inputs, for current_block < script.timelock and for a record
\* built for the claim path.
C14_AliceWithdrawalRecordValidated ==
    last.op = "validate_alice_withdrawal_transaction" =>
        /\ last.ret = (/\ last.tx.inputs # <<>>
                       /\ last.tx.inputs[1].script_sig
                             = IntToStr(last.script.timelock) \o <<" ">>
                                 \o last.script.script_hex
                       /\ last.current_block >= last.script.timelock)
        /\ last.tx.inputs = <<>> => last.ret = FALSE
        /\ last.current_block < last.script.timelock => last.ret = FALSE
        /\ (\E secret \in Secrets : last.tx = ClaimRecord(last.script, secret))
               => last.ret = FALSE

\* C15: validate_funding_transaction returns True exactly when some output of
\* the record is addressed to script.p2sh_address and the descriptor passes
\* validate_script; every valid create returns a descriptor, and every record
\* create_funding_transaction builds for it is accepted.
C15_FundingRecordValidated ==
    /\ last.op = "validate_funding_transaction" =>
           last.ret = (/\ \E i \in 1..Len(last.tx.outputs) :
                              last.tx.outputs[i].address = last.script.p2sh_address
                       /\ validate_script(last.script))
    /\ ValidCreateArgs =>
           /\ last.err = "none"
           /\ \A tx \in FundingRecords(last.ret) :
                  validate_funding_transaction(tx, last.ret)

\* C16: validate_script returns True for the descriptor every valid create
\* returns, and False when the program is shorter than 50 or longer than 1000
\* bytes, when the address does not begin with '3', or when script_hex,
\* hashlock or a public key is not valid hex.
C16_ValidateScriptShape ==
    /\ ValidCreateArgs => (last.err = "none" /\ validate_script(last.ret))
    /\ (/\ last.op = "validate_script"
        /\ \/ FromHex(last.script.script_hex).err # "none"
           \/ Len(last.script.script_hex) < 2 * 50
           \/ Len(last.script.script_hex) > 2 * 1000
           \/ ~StartsWith(last.script.p2sh_address, <<"3">>)
           \/ FromHex(last.script.hashlock).err # "none"
           \/ FromHex(last.script.alice_pubkey).err # "none"
           \/ FromHex(last.script.bob_pubkey).err # "none")
       => last.ret = FALSE


\* C17: in the EVM-to-Dogecoin session, whenever the EVM-side record carries
\* a hashlock that passes the flow's own format check (non-empty, 64
\* characters), Bob's create step succeeds and the record it writes carries
\* that hashlock: what the flow accepts, HTCLScriptGenerator.create accepts.
C17_CreateStepAcceptsCheckedHashlock ==
    (/\ flow.step = "create_htcl_on_dogecoin"
     /\ flow.env.files.evm # None
     /\ Truthy(flow.env.files.evm.hashlockDogecoin)
     /\ Len(flow.env.files.evm.hashlockDogecoin) = 64)
    => /\ flow.err = "none"
       /\ flow.ret # None
       /\ flow.ret.hashlock = flow.env.files.evm.hashlockDogecoin

\* C18: the two contract records of a session never carry equal timelocks:
\* the record Bob's Cosmos create step writes differs in its timelock from
\* the EVM record it was made from, and so do the two records of the
\* Cosmos-to-EVM flow.
C18_TimelocksStrictlyOrdered ==
    /\ (flow.step = "create_htcl_on_cosmos" /\ flow.ret # None)
       => flow.ret.timelock # flow.env.files.evm.timelock
    /\ env.files.transaction_data # None
       => env.files.transaction_data.cosmos.timelock
            # env.files.transaction_data.evm.timelock

\* C19: when Alice's Dogecoin withdraw step runs on a record whose timelock
\* is a block height stored by the create step (at most 1000 blocks above
\* the current height) and the current block height is below it, the step's
\* timelock check passes: the timelock is not taken as expired.
C19_TimelockComparedAsBlockHeight ==
    (/\ flow.step = "alice_withdraw_on_dogecoin"
     /\ flow.env.files.dogecoin # None
     /\ get_current_block_height(flow.env.clock) < flow.env.files.dogecoin.timelock
     /\ flow.env.files.dogecoin.timelock
          <= get_current_block_height(flow.env.clock) + 1000)
    => ~timelock_expired(flow.env.clock, flow.env.files.dogecoin.timelock)

C21_HashlockConversionRoundTrip ==
    (/\ flow.step = "convert"
     /\ flow.prev # None
     /\ flow.arg = flow.prev.ret
     /\ flow.to_evm # flow.prev.to_evm)
    => /\ (/\ flow.prev.to_evm
           /\ \A i \in 1..Len(flow.prev.arg) : IsHexChar(flow.prev.arg[i]))
          => flow.ret = flow.prev.arg
       /\ (/\ ~flow.prev.to_evm
           /\ StartsWith(flow.prev.arg, STR_0x)
           /\ \A i \in 3..Len(flow.prev.arg) : IsHexChar(flow.prev.arg[i]))
          => flow.ret = flow.prev.arg

\* a digest beginning with zeros, raw and marked, taken through each round trip
C21_Witness ==
    /\ flow.step = "convert"
    /\ flow.prev # None
    /\ flow.arg = flow.prev.ret
    /\ flow.to_evm # flow.prev.to_evm
    /\ flow.prev.arg \in {ZERO_LED_HASHLOCK, STR_0x \o ZERO_LED_HASHLOCK}
    /\ flow.prev.to_evm = (flow.prev.arg = ZERO_LED_HASHLOCK)
    /\ flow.ret = flow.prev.arg

\* C22: the address derived from a program decodes to 25 bytes: the version
\* byte, then RIPEMD160(SHA256(program)), then the first 4 bytes of the
\* double SHA-256 of those 21 bytes; encoding the decoded bytes gives the
\* address again, and deriving again from the program gives the same text.
C22_AddressPayloadRoundTrip ==
    (last.op = "_script_to_p2sh_address" /\ last.err = "none")
    => LET payload == b58decode(last.ret)
           program == FromHex(last.script_hex).bytes
       IN /\ Len(payload) = 25
          /\ payload[1] = P2SH_VERSION
          /\ SubSeq(payload, 2, 21) = Hash160Bytes(program)
          /\ SubSeq(payload, 22, 25) = SubSeq(Sha256d(SubSeq(payload, 1, 21)), 1, 4)
          /\ b58encode(payload) = last.ret
          /\ script_to_p2sh_address(last.script_hex) = last.ret

\* the address of the 66-byte program has been derived
C22_Witness ==
    /\ last.op = "_script_to_p2sh_address"
    /\ last.err = "none"
    /\ last.script_hex = SAMPLE_SCRIPT_HEX
    /\ Len(last.ret) = 34
    /\ SubSeq(b58decode(last.ret), 2, 21) = Hash160Bytes(FromHex(SAMPLE_SCRIPT_HEX).bytes)

\* C23: from_json applied to the text to_json made of a record returns a
\* record equal to it on txid, version, inputs, outputs, locktime,
\* script_sig and witness.
C23_JsonRoundTrip ==
    last.op = "from_json"
    => /\ last.err = "none"
       /\ last.ret.txid = last.tx.txid
       /\ last.ret.version = last.tx.version
       /\ last.ret.inputs = last.tx.inputs
       /\ last.ret.outputs = last.tx.outputs
       /\ last.ret.locktime = last.tx.locktime
       /\ last.ret.script_sig = last.tx.script_sig
       /\ last.ret.witness = last.tx.witness

\* the record with script_sig, witness, escapes and a negative value has
\* gone through the text and back
C23_Witness ==
    /\ last.op = "from_json"
    /\ last.tx = SIGNED_TX
    /\ last.err = "none"
    /\ Contains(last.json_str, <<BACKSLASH, QUOTE>>)
    /\ last.ret.witness = SIGNED_TX.witness

\* C24: at a height where the refund path is accepted for the descriptor
\* (validate_alice_spending returned True at current_block), the claim path
\* is not accepted for it: validate_bob_spending returns False for every
\* secret and signature.
C24_PathsMutuallyExclusive ==
    (last.op = "validate_alice_spending" /\ last.ret)
    => \A secret \in Secrets, signature \in Signatures :
          ~validate_bob_spending(script, secret, signature, script.bob_pubkey)

\* C25: a withdraw step run on a record that is already marked withdrawn
\* (bobWithdrawn or aliceWithdrawn) produces no withdrawal: it returns None
\* and leaves the files as they were.
C25_WithdrawnIsTerminal ==
    LET name == CASE flow.step = "bob_withdraw_on_cosmos" -> "cosmos"
                  [] flow.step = "bob_withdraw_on_dogecoin" -> "dogecoin"
                  [] flow.step = "alice_withdraw_on_cosmos" -> "cosmos"
                  [] OTHER -> "none"
        flag == IF flow.step = "alice_withdraw_on_cosmos"
                THEN "aliceWithdrawn" ELSE "bobWithdrawn"
    IN (/\ name # "none"
        /\ flow.env.files[name] # None
        /\ flag \in DOMAIN flow.env.files[name])
       => (flow.ret = None /\ flow.files = flow.env.files)

\* C26: the record Alice's Cosmos create step writes passes the secret check
\* of Bob's Cosmos withdraw step: the check applied to the record's secret
\* and hashlock lets the step go on.
C26_CreatedRecordPassesSecretCheck ==
    (flow.step = "cosmos_evm_create_htcl_on_cosmos" /\ flow.err = "none")
    => withdraw_secret_check(flow.ret.secret, flow.ret.hashlock).ok

\* C27: when the secret check of Bob's Dogecoin withdraw step accepts the
\* record's secret and hashlock, the hashlock check of validate_bob_spending
\* accepts them too: with Bob's key and a signature of full length the
\* validator returns True.
C27_ValidatorAcceptsCheckedSecret ==
    LET dogecoin_data == flow.env.files.dogecoin
        s == HTCLScript(dogecoin_data.alicePubkey, dogecoin_data.bobPubkey,
                        dogecoin_data.timelock, dogecoin_data.hashlock,
                        dogecoin_data.scriptHex, dogecoin_data.htclAddress)
    IN (/\ flow.step = "bob_withdraw_on_dogecoin"
        /\ dogecoin_data # None
        /\ flow.env.files.evm # None
        /\ withdraw_secret_check(dogecoin_data.secret, dogecoin_data.hashlock).ok)
       => validate_bob_spending(s, dogecoin_data.secret,
                                Rep("a", MinSignatureLength), dogecoin_data.bobPubkey)

\* C28: a run of Bob's source-chain withdraw step (Cosmos or Dogecoin) that
\* returns a record has marked it bobWithdrawn, and then the stored secret
\* hashes (SHA-256 of its bytes) to the stored hashlock, the clock at the run
\* is strictly below the stored timelock and the destination record has
\* aliceWithdrawn set; a run that returns None, or raises, leaves the files of
\* the directory as they were; and no source record carries bobWithdrawn while
\* the destination record lacks aliceWithdrawn.
C28_BobWithdrawsAfterAlice ==
    LET name == CASE flow.step = "bob_withdraw_on_cosmos" -> "cosmos"
                  [] flow.step = "bob_withdraw_on_dogecoin" -> "dogecoin"
                  [] OTHER -> "none"
        Marked(data) == data # None /\ "bobWithdrawn" \in DOMAIN data /\ data.bobWithdrawn
        AliceDone(data) ==
            data # None /\ "aliceWithdrawn" \in DOMAIN data /\ data.aliceWithdrawn
    IN /\ (name # "none" /\ flow.ret # None)
          => LET before == flow.env.files[name]
                 stored == IF StartsWith(before.secret, STR_0x)
                           THEN SubSeq(before.secret, 3, Len(before.secret))
                           ELSE before.secret
             IN /\ Marked(flow.ret)
                /\ flow.files = [flow.env.files EXCEPT ![name] = flow.ret]
                /\ BytesToHex(Sha256(FromHex(stored).bytes)) = before.hashlock
                /\ flow.env.clock < before.timelock
                /\ AliceDone(flow.env.files.evm)
       /\ (name # "none" /\ flow.ret = None) => flow.files = flow.env.files
       /\ env.cwd \in {"cosmos-evm", "dogecoin-evm"}
          => \A n \in {"cosmos", "dogecoin"} :
                Marked(env.files[n]) => AliceDone(env.files.evm)

C28_Witness ==
    /\ flow.step = "bob_withdraw_on_cosmos"
    /\ flow.ret # None
    /\ flow.ret.bobWithdrawn
    /\ "bobWithdrawn" \notin DOMAIN flow.env.files.cosmos
    /\ flow.env.files.evm.aliceWithdrawn

\* C29: for every valid parameter set (timelock > 0) create completes, and
\* the push that precedes CHECKLOCKTIMEVERIFY in the program holds the
\* timelock: its operand, of one to four bytes, read as a little-endian
\* number is exactly the timelock, so different timelocks give different
\* operands.
C29_TimelockOperandFaithful ==
    ValidCreateArgs =>
        /\ last.err = "none"
        /\ FromHex(last.ret.script_hex).err = "none"
        /\ LET p == FromHex(last.ret.script_hex).bytes
               hl == FromHex(last.hashlock).bytes
               bk == FromHex(last.bob_pubkey).bytes
               at == 3 + Len(hl) + 3 + Len(bk) + 3 + 1
               n == p[at]
               operand == SubSeq(p, at + 1, at + n)
               B(i) == IF i <= Len(operand) THEN operand[i] ELSE 0
           IN /\ Len(p) > at
              /\ n \in 1..4
              /\ Len(p) > at + n
              /\ p[at + n + 1] = 177
              /\ B(1) + 256 * B(2) + 65536 * B(3) + 16777216 * B(4) = last.ret.timelock
              /\ last.ret.timelock = last.timelock

\* C30: when generate_deterministic_secret_from_private_key returns, its
\* secret is the one the dogecoin-evm module derives at that time from the
\* key written without and with the 0x prefix, and the one the cosmos-evm
\* module derives from either writing.
C30_SecretIndependentOfWritingAndFlow ==
    (/\ flow.step = "derive"
     /\ flow.fn = "generate_deterministic_secret_from_private_key"
     /\ flow.err = "none")
    => LET bare == IF StartsWith(flow.key, STR_0x)
                   THEN SubSeq(flow.key, 3, Len(flow.key)) ELSE flow.key
           t == flow.env.clock
       IN \A key \in {bare, STR_0x \o bare} :
             /\ dogecoin_evm_generate_deterministic_secret_from_private_key(key, t)
                    .ret.secret = flow.ret.secret
             /\ bare = PRIVATE_KEY_MAIN
                => cosmos_evm_generate_deterministic_secret_from_private_key(key, t, TRUE)
                       .ret.secret = flow.ret.secret

====
